---------------------------- MODULE Spec2Model ----------------------------
(***************************************************************************)
(* A model of the maze generator: the bit-packed Maze (types.rs), the A*   *)
(* solver (solvers/astar.rs), the five generators (generators/*.rs) and    *)
(* the per-instance random source (prng.rs, main.rs).                      *)
(*                                                                         *)
(* Random draws (rng.gen_range, rng.gen, shuffle) are modelled as          *)
(* nondeterministic choices over the range drawn from, except in           *)
(* SpecDeterminism, where each draw is computed from the instance's        *)
(* random source.  Coordinates are (x, y) pairs <<x, y>>, x the column.    *)
(***************************************************************************)
EXTENDS Integers, Sequences, FiniteSets, TLC

VARIABLES
    maze,   \* the Maze under construction or being solved (types.rs Maze)
    gen,    \* the locals of the running generator, with its position gen.pc
    sol,    \* the locals of astar::solve, with its position sol.pc
    driver  \* the batches, workers, channel and writer of main (main.rs 136-211)

vars == <<maze, gen, sol, driver>>

(***************************************************************************)
(* Bounds of the model.                                                    *)
(***************************************************************************)
\* A* is run on every maze of at most this many cells.
AStarMaxCells == 9

\* The DFS generator is run on every grid of at most this many rows and
\* columns.
DfsMaxDim == 5

\* The Kruskal generator is run on every grid of at most this many rows
\* and this many columns (at most 2 x 3 rooms, 7 edges to shuffle).
KruskalMaxRows == 3
KruskalMaxCols == 5

\* The Wilson generator is run on every grid of at most this many rows and
\* columns.
WilsonMaxDim == 4

\* The drunkard's walk is run on every grid of at most this many cells.
DrunkMaxCells == 8

\* The Searchformer sampler is run on every grid of at most SfMaxDim rows and
\* columns and at most SfMaxCells cells.
SfMaxDim == 5
SfMaxCells == 10

\* main is run on this many instances (--count), with master seeds up to
\* DetMaxSeed, batches of up to DetMaxBatch instances and up to DetMaxWorkers
\* workers.  The code's batch size is 1000 (main.rs 140).
DetCount == 3
DetMaxSeed == 1
DetMaxBatch == 3
DetMaxWorkers == 2

\* Maze::get_cell and Maze::set_cell are applied to every maze of at most
\* MazeMaxCells cells, and to mazes of WideRows rows of WideCols cells, whose
\* rows take two bytes.
MazeMaxCells == 8
WideRows == 2
WideCols == 9

\* Records are written for every maze of at most SerMaxCells cells, and for
\* the mazes of one row of SerWideCols cells that are all floor, or all floor
\* but the last two cells: their last columns and largest costs take two
\* digits.
SerMaxCells == 6
SerWideCols == 11

\* The pipeline is run on up to PipeMaxCount instances, in batches of up to
\* PipeMaxBatch, by up to PipeMaxWorkers workers.  The channel holds
\* PipeCapacity batches where the code's holds 100 (main.rs 136), and the
\* writer flushes every PipeFlushBatches-th batch where the code flushes
\* every 10th (total_written % 10_000 with batches of 1000, main.rs 154-161).
PipeMaxCount == 5
PipeMaxBatch == 2
PipeMaxWorkers == 2
PipeCapacity == 2
PipeFlushBatches == 2

\* The placements of start and goal the sampler tries on one wall layout
\* before it draws the next.  The code tries 100 (searchformer.rs 45); the
\* model tries this many.
SfTries == 2

(***************************************************************************)
(* Program constants.                                                      *)
(***************************************************************************)
\* u16::MAX, the g_score of a cell not yet discovered (astar.rs 41).
U16_MAX == 65535

\* u32::MAX, the came_from of a cell without predecessor (astar.rs 42).  It
\* is only ever compared for equality with cell indices, which it exceeds;
\* the model checker's integers are 32 bits wide, so it is -1 here,
\* which no cell index equals either.
NO_PREDECESSOR == -1

(***************************************************************************)
(* Helpers.                                                                *)
(***************************************************************************)
Abs(n) == IF n < 0 THEN -n ELSE n

Max(a, b) == IF a >= b THEN a ELSE b

Min(a, b) == IF a <= b THEN a ELSE b

RECURSIVE Pow2(_)
Pow2(n) == IF n = 0 THEN 1 ELSE 2 * Pow2(n - 1)

Reverse(s) == [i \in 1..Len(s) |-> s[Len(s) + 1 - i]]

SeqSet(s) == {s[i] : i \in 1..Len(s)}

\* The cells of a rows x cols grid, and their row-major order (y, then x).
Cells(rows, cols) == {<<x, y>> : x \in 0..(cols - 1), y \in 0..(rows - 1)}

RowMajor(rows, cols) == [i \in 1..(rows * cols) |->
                            <<(i - 1) % cols, (i - 1) \div cols>>]

(***************************************************************************)
(* types.rs: Maze.  grid is the byte vector, 1-indexed here: byte_idx b of *)
(* the code is grid[b + 1].                                                *)
(***************************************************************************)
Maze_new(rows, cols) ==
    LET cols_bytes == (cols + 7) \div 8
    IN  [grid |-> [i \in 1..(rows * cols_bytes) |-> 0],
         start |-> <<0, 0>>,
         goal |-> <<0, 0>>,
         rows |-> rows,
         cols |-> cols,
         cols_bytes |-> cols_bytes]

\* byte & (1 << bit_idx) != 0
BitTest(byte, bit_idx) == (byte \div Pow2(bit_idx)) % 2 = 1

\* byte | (1 << bit_idx)
BitSet(byte, bit_idx) ==
    IF BitTest(byte, bit_idx) THEN byte ELSE byte + Pow2(bit_idx)

\* byte & !(1 << bit_idx)
BitClear(byte, bit_idx) ==
    IF BitTest(byte, bit_idx) THEN byte - Pow2(bit_idx) ELSE byte

get_cell(m, x, y) ==
    IF x >= m.cols \/ y >= m.rows
    THEN FALSE
    ELSE LET byte_idx == y * m.cols_bytes + (x \div 8)
             bit_idx == x % 8
         IN  BitTest(m.grid[byte_idx + 1], bit_idx)

\* set_cell that tests x against the bits of the row's bytes.
set_cell_Leaky(m, x, y, value) ==
    IF x >= m.cols_bytes * 8 \/ y >= m.rows
    THEN m
    ELSE LET byte_idx == y * m.cols_bytes + (x \div 8)
             bit_idx == x % 8
         IN  IF value
             THEN [m EXCEPT !.grid[byte_idx + 1] = BitSet(@, bit_idx)]
             ELSE [m EXCEPT !.grid[byte_idx + 1] = BitClear(@, bit_idx)]

set_cell(m, x, y, value) ==
    IF x >= m.cols \/ y >= m.rows
    THEN m
    ELSE LET byte_idx == y * m.cols_bytes + (x \div 8)
             bit_idx == x % 8
         IN  IF value
             THEN [m EXCEPT !.grid[byte_idx + 1] = BitSet(@, bit_idx)]
             ELSE [m EXCEPT !.grid[byte_idx + 1] = BitClear(@, bit_idx)]

\* The floor cells of a maze, as the generators and the serializer scan
\* them: for y in 0..rows, for x in 0..cols, if get_cell(x, y).
FloorSet(m) == {c \in Cells(m.rows, m.cols) : get_cell(m, c[1], c[2])}

RECURSIVE CarveAll(_, _)
CarveAll(m, cells) ==
    IF cells = {} THEN m
    ELSE LET c == CHOOSE c \in cells : TRUE
         IN  CarveAll(set_cell(m, c[1], c[2], TRUE), cells \ {c})

\* A maze of the given size with exactly `floors` carved, start and goal set.
MazeWith(rows, cols, floors, start, goal) ==
    [CarveAll(Maze_new(rows, cols), floors) EXCEPT !.start = start, !.goal = goal]

(***************************************************************************)
(* solvers/astar.rs                                                        *)
(***************************************************************************)
\* Ordering values of std::cmp::Ordering.
Less == -1
Equal == 0
Greater == 1

IntCmp(a, b) == IF a < b THEN Less ELSE IF a > b THEN Greater ELSE Equal

\* The comparator without the reversal: a max-heap on f_score.
AStarNode_cmp_MaxF(self, other) ==
    IF IntCmp(self.f_score, other.f_score) # Equal
    THEN IntCmp(self.f_score, other.f_score)
    ELSE IntCmp(other.g_score, self.g_score)

\* The comparator with the tie on equal f reversed: larger g is greater.
AStarNode_cmp_LargerG(self, other) ==
    IF IntCmp(other.f_score, self.f_score) # Equal
    THEN IntCmp(other.f_score, self.f_score)
    ELSE IntCmp(self.g_score, other.g_score)

\* impl Ord for AStarNode: other.f.cmp(self.f).then_with(other.g.cmp(self.g))
AStarNode_cmp(self, other) ==
    IF IntCmp(other.f_score, self.f_score) # Equal
    THEN IntCmp(other.f_score, self.f_score)
    ELSE IntCmp(other.g_score, self.g_score)

manhattan_distance(x1, y1, x2, y2) == Abs(x1 - x2) + Abs(y1 - y2)

\* a <= b of PartialOrd, derived from cmp.
NodeLe(a, b) == AStarNode_cmp(a, b) # Greater

(***************************************************************************)
(* open_set is a std BinaryHeap: a max-heap under Ord kept in a vector,    *)
(* data[i + 1] here for data[i] there.  push appends and sifts up; pop     *)
(* takes the root, puts the last element in its place, sifts it down to    *)
(* the bottom and back up.  The element moved is held outside the vector   *)
(* (the "hole"), as there.                                                 *)
(***************************************************************************)
RECURSIVE sift_up(_, _, _, _)
sift_up(data, start, pos, elem) ==
    IF pos > start
    THEN LET parent == (pos - 1) \div 2
         IN  IF NodeLe(elem, data[parent + 1])
             THEN [data EXCEPT ![pos + 1] = elem]
             ELSE sift_up([data EXCEPT ![pos + 1] = data[parent + 1]],
                          start, parent, elem)
    ELSE [data EXCEPT ![pos + 1] = elem]

RECURSIVE sift_down_to_bottom(_, _, _, _)
sift_down_to_bottom(data, start, pos, elem) ==
    LET end == Len(data)
        child == 2 * pos + 1
    IN  IF end >= 2 /\ child <= end - 2
        THEN LET c == IF NodeLe(data[child + 1], data[child + 2])
                      THEN child + 1 ELSE child
             IN  sift_down_to_bottom([data EXCEPT ![pos + 1] = data[c + 1]],
                                     start, c, elem)
        ELSE IF child = end - 1
        THEN sift_up([data EXCEPT ![pos + 1] = data[child + 1]], start, child, elem)
        ELSE sift_up(data, start, pos, elem)

heap_push(data, item) == sift_up(Append(data, item), 0, Len(data), item)

\* The node pop returns, and the heap it leaves (data is not empty).
heap_top(data) == data[1]

heap_pop(data) ==
    LET item == data[Len(data)]
        rest == SubSeq(data, 1, Len(data) - 1)
    IN  IF rest # <<>> THEN sift_down_to_bottom(rest, 0, 0, item) ELSE rest

DIRECTIONS == <<<<0, -1>>, <<1, 0>>, <<0, 1>>, <<-1, 0>>>>

\* The state of solve before its loop (astar.rs 35-61).
SolveInit(m) ==
    LET total_cells == m.rows * m.cols
        start_idx == m.start[2] * m.cols + m.start[1]
        start_h == manhattan_distance(m.start[1], m.start[2], m.goal[1], m.goal[2])
    IN  [pc |-> "loop",
         reasoning |-> <<>>,
         open_set |-> heap_push(<<>>, [x |-> m.start[1], y |-> m.start[2],
                                       g_score |-> 0, f_score |-> start_h]),
         g_scores |-> [i \in 0..(total_cells - 1) |->
                          IF i = start_idx THEN 0 ELSE U16_MAX],
         came_from |-> [i \in 0..(total_cells - 1) |-> NO_PREDECESSOR],
         closed_set |-> [i \in 0..(total_cells - 1) |-> FALSE],
         path |-> <<>>,
         \* ghost: the last node popped and the queue it was popped from
         current_node |-> [x |-> 0, y |-> 0, g_score |-> 0, f_score |-> 0],
         popped_from |-> <<>>]

\* The create event recorded for the current cell instead of the neighbour.
CreateEvent_Current(node, nx, ny, g, h) ==
    [kind |-> "create", x |-> node.x, y |-> node.y, g |-> g, h |-> h]

\* ReasoningEvent::Create { x: nx, y: ny, g: tentative_g, h } (astar.rs 123-128)
CreateEvent(node, nx, ny, g, h) ==
    [kind |-> "create", x |-> nx, y |-> ny, g |-> g, h |-> h]

\* One neighbour of the popped cell (astar.rs 94-136), k the direction.
RECURSIVE Explore(_, _, _, _)
Explore(m, s, node, k) ==
    IF k > Len(DIRECTIONS) THEN s
    ELSE
    LET nx == node.x + DIRECTIONS[k][1]
        ny == node.y + DIRECTIONS[k][2]
        current_idx == node.y * m.cols + node.x
        neighbor_idx == ny * m.cols + nx
        tentative_g == (node.g_score + 1) % (U16_MAX + 1)
    IN  IF nx < 0 \/ nx >= m.cols \/ ny < 0 \/ ny >= m.rows
        THEN Explore(m, s, node, k + 1)
        ELSE IF ~get_cell(m, nx, ny) \/ s.closed_set[neighbor_idx]
        THEN Explore(m, s, node, k + 1)
        ELSE IF tentative_g < s.g_scores[neighbor_idx]
        THEN LET h == manhattan_distance(nx, ny, m.goal[1], m.goal[2])
                 f == (tentative_g + h) % (U16_MAX + 1)
             IN  Explore(m,
                    [s EXCEPT
                       !.came_from[neighbor_idx] = current_idx,
                       !.g_scores[neighbor_idx] = tentative_g,
                       !.reasoning = Append(@, CreateEvent(node, nx, ny,
                                                            tentative_g, h)),
                       !.open_set = heap_push(@, [x |-> nx, y |-> ny,
                                          g_score |-> tentative_g, f_score |-> f])],
                    node, k + 1)
        ELSE Explore(m, s, node, k + 1)

\* One iteration of `while let Some(current_node) = open_set.pop()`
\* (astar.rs 65-138); open_set is not empty.
SolveIter(m, s) ==
    LET current_node == heap_top(s.open_set)
        x == current_node.x
        y == current_node.y
        current_idx == y * m.cols + x
        popped == [s EXCEPT !.open_set = heap_pop(@),
                            !.current_node = current_node,
                            !.popped_from = s.open_set]
    IN  IF s.closed_set[current_idx]
        THEN popped
        ELSE
        LET g_score == current_node.g_score
            h_score == manhattan_distance(x, y, m.goal[1], m.goal[2])
            closed == [popped EXCEPT
                         !.reasoning = Append(@, [kind |-> "close", x |-> x, y |-> y,
                                                  g |-> g_score, h |-> h_score])]
        IN  IF x = m.goal[1] /\ y = m.goal[2]
            THEN [closed EXCEPT !.pc = "reconstruct"]
            ELSE Explore(m, [closed EXCEPT !.closed_set[current_idx] = TRUE],
                         current_node, 1)

\* The walk back from the goal (astar.rs 147-159): the cells pushed, or
\* <<>> when a cell without a predecessor is met (path.clear()).
RECURSIVE WalkBack(_, _, _, _)
WalkBack(m, s, current_idx, path) ==
    LET start_idx == m.start[2] * m.cols + m.start[1]
    IN  IF current_idx = start_idx THEN path
        ELSE LET x == current_idx % m.cols
                 y == current_idx \div m.cols
                 prev_idx == s.came_from[current_idx]
             IN  IF prev_idx = NO_PREDECESSOR THEN <<>>
                 ELSE WalkBack(m, s, prev_idx, Append(path, <<x, y>>))

\* The path reconstruction with the start cell not pushed.
Reconstruct_NoStart(m, s) ==
    LET goal_idx == m.goal[2] * m.cols + m.goal[1]
        start_idx == m.start[2] * m.cols + m.start[1]
    IN  IF s.came_from[goal_idx] # NO_PREDECESSOR \/ goal_idx = start_idx
        THEN Reverse(WalkBack(m, s, goal_idx, <<>>))
        ELSE <<>>

\* The path reconstruction that pushes the start cell whenever the goal was
\* reached, the walk back empty or not.
Reconstruct_StartAlways(m, s) ==
    LET goal_idx == m.goal[2] * m.cols + m.goal[1]
        start_idx == m.start[2] * m.cols + m.start[1]
    IN  IF s.came_from[goal_idx] # NO_PREDECESSOR \/ goal_idx = start_idx
        THEN Reverse(Append(WalkBack(m, s, goal_idx, <<>>), m.start))
        ELSE <<>>

\* Path reconstruction (astar.rs 140-165).
Reconstruct(m, s) ==
    LET goal_idx == m.goal[2] * m.cols + m.goal[1]
        start_idx == m.start[2] * m.cols + m.start[1]
    IN  IF s.came_from[goal_idx] # NO_PREDECESSOR \/ goal_idx = start_idx
        THEN LET walked == WalkBack(m, s, goal_idx, <<>>)
             IN  IF walked # <<>> THEN Reverse(Append(walked, m.start)) ELSE <<>>
        ELSE <<>>

\* solve as a function: the loop run to its end, then the reconstruction.
RECURSIVE SolveLoop(_, _)
SolveLoop(m, s) ==
    IF s.pc # "loop" THEN s
    ELSE IF s.open_set = <<>> THEN [s EXCEPT !.pc = "reconstruct"]
    ELSE SolveLoop(m, SolveIter(m, s))

solve(m) ==
    LET s == SolveLoop(m, SolveInit(m))
    IN  [path |-> Reconstruct(m, s), reasoning |-> s.reasoning]

\* The solver's steps as actions on sol.
AStarPop ==
    /\ sol.pc = "loop"
    /\ sol.open_set # <<>>
    /\ sol' = SolveIter(maze, sol)
    /\ UNCHANGED <<maze, gen, driver>>

AStarExhausted ==
    /\ sol.pc = "loop"
    /\ sol.open_set = <<>>
    /\ sol' = [sol EXCEPT !.pc = "reconstruct"]
    /\ UNCHANGED <<maze, gen, driver>>

AStarReconstruct ==
    /\ sol.pc = "reconstruct"
    /\ sol' = [sol EXCEPT !.pc = "done", !.path = Reconstruct(maze, sol)]
    /\ UNCHANGED <<maze, gen, driver>>

Idle == [pc |-> "idle"]

\* The mazes solve is run on: every wall layout of every grid of at most
\* AStarMaxCells cells with start and goal on floor cells, and the 5x5
\* all-floor maze from (0,0) to (4,4).
AStarDims == {d \in (1..AStarMaxCells) \X (1..AStarMaxCells) :
                 d[1] * d[2] <= AStarMaxCells}

InitAStar ==
    /\ gen = Idle
    /\ driver = Idle
    /\ \/ \E d \in AStarDims : \E floors \in SUBSET Cells(d[1], d[2]) :
            \E s \in floors, g \in floors :
               maze = MazeWith(d[1], d[2], floors, s, g)
       \/ maze = MazeWith(5, 5, Cells(5, 5), <<0, 0>>, <<4, 4>>)
    /\ sol = SolveInit(maze)

NextAStar == AStarPop \/ AStarExhausted \/ AStarReconstruct

SpecAStar == InitAStar /\ [][NextAStar]_vars

(***************************************************************************)
(* generators/*.rs.  gen.kind names the generator, gen.pc its position;    *)
(* "done" is the return of generate, "panic" a panic inside it (gen_range  *)
(* on an empty range panics).  rows and cols are those of maze.            *)
(***************************************************************************)
\* The state at the entry of generate: `let mut maze = Maze::new(rows, cols)`.
GenInit(kind, rows, cols) ==
    /\ maze = Maze_new(rows, cols)
    /\ gen = [kind |-> kind, pc |-> "begin"]
    /\ sol = Idle
    /\ driver = Idle

Panic == [kind |-> gen.kind, pc |-> "panic"]

\* for y in 0..rows { for x in 0..cols { if maze.get_cell(x, y) { floors.push((x, y)) } } }
FloorSeq(m) ==
    SelectSeq(RowMajor(m.rows, m.cols), LAMBDA c : get_cell(m, c[1], c[2]))

\* The connector taken to be the cell jumped to: nothing carved between.
WallBetween_None(a, b) == b

\* The cell between two cells two apart: ((x + nx) / 2, (y + ny) / 2).
WallBetween(a, b) == <<(a[1] + b[1]) \div 2, (a[2] + b[2]) \div 2>>

InBounds(m, x, y) == x >= 0 /\ x < m.cols /\ y >= 0 /\ y < m.rows

(***************************************************************************)
(* The post-step of dfs.rs 75-96, kruskal.rs 149-171 and wilson.rs 110-131 *)
(* (the same text in each), and of drunkards_walk.rs 97-109, whose loop    *)
(* also stops when there is a single floor cell.                           *)
(***************************************************************************)
\* The locals after the two draws.
Picked(g, start_idx, goal_idx) ==
    [g EXCEPT !.pc = "goal_loop", !.start_idx = start_idx, !.goal_idx = goal_idx]

\* start_idx = gen_range(0..floors.len()); goal_idx = gen_range(0..floors.len())
PickStartGoal ==
    /\ gen.pc = "pick"
    /\ IF Len(gen.floors) = 0
       THEN gen' = Panic
       ELSE \E s \in 0..(Len(gen.floors) - 1), g \in 0..(Len(gen.floors) - 1) :
               gen' = Picked(gen, s, g)
    /\ UNCHANGED <<maze, sol, driver>>

\* while goal_idx == start_idx [&& floors.len() > 1]
GoalLoopCondition(g) ==
    /\ g.goal_idx = g.start_idx
    /\ (g.kind = "drunkardswalk" => Len(g.floors) > 1)

Resampled(g, goal_idx) == [g EXCEPT !.goal_idx = goal_idx]

\* One pass of the loop: goal_idx = gen_range(0..floors.len()).
ResampleGoal ==
    /\ gen.pc = "goal_loop"
    /\ GoalLoopCondition(gen)
    /\ \E g \in 0..(Len(gen.floors) - 1) : gen' = Resampled(gen, g)
    /\ UNCHANGED <<maze, sol, driver>>

\* maze.start = floors[start_idx]; maze.goal = floors[goal_idx]
Assigned(m, g) == [m EXCEPT !.start = g.floors[g.start_idx + 1],
                            !.goal = g.floors[g.goal_idx + 1]]

\* The two assignments and the return.
AssignStartGoal ==
    /\ gen.pc = "goal_loop"
    /\ ~GoalLoopCondition(gen)
    /\ maze' = Assigned(maze, gen)
    /\ gen' = [gen EXCEPT !.pc = "done"]
    /\ UNCHANGED <<sol, driver>>

PostStep == PickStartGoal \/ ResampleGoal \/ AssignStartGoal

(***************************************************************************)
(* generators/dfs.rs                                                       *)
(***************************************************************************)
DFS_DIRECTIONS == <<<<0, -2>>, <<2, 0>>, <<0, 2>>, <<-2, 0>>>>

\* The start cell offset + 2 * k and the stack (dfs.rs 17-26).
DfsStarted(m, offset, kx, ky) ==
    LET start_x == offset + 2 * kx
        start_y == offset + 2 * ky
    IN  [maze |-> set_cell(m, start_x, start_y, TRUE),
         gen |-> [kind |-> "dfs", pc |-> "loop", offset |-> offset,
                  stack |-> <<<<start_x, start_y>>>>]]

\* offset, the start cell and the stack (dfs.rs 15-26).
DfsBegin ==
    /\ gen.kind = "dfs" /\ gen.pc = "begin"
    /\ \E offset \in {0, 1} :
          LET nx == (maze.cols - offset) \div 2
              ny == (maze.rows - offset) \div 2
          IN  IF nx = 0 \/ ny = 0
              THEN gen' = Panic /\ UNCHANGED maze
              ELSE \E kx \in 0..(nx - 1), ky \in 0..(ny - 1) :
                      /\ maze' = DfsStarted(maze, offset, kx, ky).maze
                      /\ gen' = DfsStarted(maze, offset, kx, ky).gen
    /\ UNCHANGED <<sol, driver>>

\* The neighbours two cells away that are in bounds and still wall.
DfsNeighbors(m, c) ==
    LET cand == [k \in 1..4 |-> <<c[1] + DFS_DIRECTIONS[k][1],
                                  c[2] + DFS_DIRECTIONS[k][2]>>]
    IN  SelectSeq(cand, LAMBDA n : InBounds(m, n[1], n[2]) /\ ~get_cell(m, n[1], n[2]))

\* The neighbour of index i and the wall before it carved, the neighbour
\* pushed (dfs.rs 59-69).
DfsCarved(m, g, i) ==
    LET top == g.stack[Len(g.stack)]
        n == DfsNeighbors(m, top)[i + 1]
        w == WallBetween(top, n)
    IN  [maze |-> set_cell(set_cell(m, n[1], n[2], TRUE), w[1], w[2], TRUE),
         gen |-> [g EXCEPT !.stack = Append(@, n)]]

\* stack.pop() (dfs.rs 70-72).
DfsPopped(g) == [g EXCEPT !.stack = SubSeq(@, 1, Len(@) - 1)]

\* One iteration of `while let Some((x, y)) = stack.last()` (dfs.rs 35-73).
DfsStep ==
    /\ gen.kind = "dfs" /\ gen.pc = "loop" /\ gen.stack # <<>>
    /\ LET neighbors == DfsNeighbors(maze, gen.stack[Len(gen.stack)])
       IN  IF neighbors # <<>>
           THEN \E i \in 0..(Len(neighbors) - 1) :
                   /\ maze' = DfsCarved(maze, gen, i).maze
                   /\ gen' = DfsCarved(maze, gen, i).gen
           ELSE /\ gen' = DfsPopped(gen)
                /\ UNCHANGED maze
    /\ UNCHANGED <<sol, driver>>

\* The floor cells collected (dfs.rs 76-83).
DfsCollected(m, g) ==
    [kind |-> "dfs", pc |-> "pick", offset |-> g.offset,
     floors |-> FloorSeq(m), start_idx |-> 0, goal_idx |-> 0]

\* The stack is empty: the loop is over.
DfsEnd ==
    /\ gen.kind = "dfs" /\ gen.pc = "loop" /\ gen.stack = <<>>
    /\ gen' = DfsCollected(maze, gen)
    /\ UNCHANGED <<maze, sol, driver>>

NextDfs == DfsBegin \/ DfsStep \/ DfsEnd


(***************************************************************************)
(* generators/kruskal.rs                                                   *)
(***************************************************************************)
UnionFind_new(size) ==
    [parent |-> [i \in 0..(size - 1) |-> i], rank |-> [i \in 0..(size - 1) |-> 0]]

\* find with path compression: the parent vector it leaves, and the root.
RECURSIVE UnionFind_find(_, _)
UnionFind_find(parent, x) ==
    IF parent[x] # x
    THEN LET r == UnionFind_find(parent, parent[x])
         IN  [parent |-> [r.parent EXCEPT ![x] = r.root], root |-> r.root]
    ELSE [parent |-> parent, root |-> parent[x]]

\* union that compares the two elements instead of their roots.
UnionFind_union_NoFind(uf, x, y) ==
    IF x = y
    THEN [uf |-> uf, merged |-> FALSE]
    ELSE [uf |-> [uf EXCEPT !.parent[y] = x], merged |-> TRUE]

\* union by rank: the structure it leaves, and whether the sets differed.
UnionFind_union(uf, x, y) ==
    LET fx == UnionFind_find(uf.parent, x)
        fy == UnionFind_find(fx.parent, y)
        root_x == fx.root
        root_y == fy.root
        found == [uf EXCEPT !.parent = fy.parent]
    IN  IF root_x = root_y
        THEN [uf |-> found, merged |-> FALSE]
        ELSE IF uf.rank[root_x] < uf.rank[root_y]
        THEN [uf |-> [found EXCEPT !.parent[root_x] = root_y], merged |-> TRUE]
        ELSE IF uf.rank[root_x] > uf.rank[root_y]
        THEN [uf |-> [found EXCEPT !.parent[root_y] = root_x], merged |-> TRUE]
        ELSE [uf |-> [found EXCEPT !.parent[root_y] = root_x,
                                   !.rank[root_x] = (@ + 1) % 256],
              merged |-> TRUE]

\* ((y as u32) << 16) | (x as u32), for x below 65536.
pack_wall_pos(x, y) == y * 65536 + x

\* (packed & 0xFFFF, packed >> 16)
unpack_wall_pos(packed) == <<packed % 65536, packed \div 65536>>

\* The edges pushed for room room_id, right then down (kruskal.rs 107-129).
RoomEdges(offset, room_rows, room_cols, room_id) ==
    LET room_x == room_id % room_cols
        room_y == room_id \div room_cols
        x == offset + room_x * 2
        y == offset + room_y * 2
        right == IF room_x + 1 < room_cols
                 THEN <<[room1 |-> room_id, room2 |-> room_id + 1,
                         wall_pos |-> pack_wall_pos(x + 1, y)]>>
                 ELSE <<>>
        down == IF room_y + 1 < room_rows
                THEN <<[room1 |-> room_id, room2 |-> room_id + room_cols,
                        wall_pos |-> pack_wall_pos(x, y + 1)]>>
                ELSE <<>>
    IN  right \o down

RECURSIVE BuildEdges(_, _, _, _)
BuildEdges(offset, room_rows, room_cols, room_id) ==
    IF room_id >= room_rows * room_cols THEN <<>>
    ELSE RoomEdges(offset, room_rows, room_cols, room_id)
            \o BuildEdges(offset, room_rows, room_cols, room_id + 1)

\* The cells of the lattice of parity `offset`: offset + 2 * k in bounds.
Lattice(rows, cols, offset) ==
    {c \in Cells(rows, cols) : c[1] >= offset /\ c[2] >= offset
                               /\ (c[1] - offset) % 2 = 0 /\ (c[2] - offset) % 2 = 0}

\* offset, the rooms carved and the edges built (kruskal.rs 87-132).
KruskalBegin ==
    /\ gen.kind = "kruskal" /\ gen.pc = "begin"
    /\ \E offset \in {0, 1} :
          LET room_rows == (maze.rows - offset + 1) \div 2
              room_cols == (maze.cols - offset + 1) \div 2
              rooms == {<<offset + 2 * rx, offset + 2 * ry>> :
                           rx \in 0..(room_cols - 1), ry \in 0..(room_rows - 1)}
              edges == BuildEdges(offset, room_rows, room_cols, 0)
          IN  /\ maze' = CarveAll(maze, rooms)
              /\ gen' = [kind |-> "kruskal", pc |-> "shuffle", offset |-> offset,
                         num_rooms |-> room_rows * room_cols,
                         edges |-> edges, i |-> Len(edges) - 1]
    /\ UNCHANGED <<sol, driver>>

Swap(s, a, b) == [s EXCEPT ![a + 1] = s[b + 1], ![b + 1] = s[a + 1]]

\* edges.shuffle(rng): for i in (1..len).rev() { swap(i, gen_range(0..i + 1)) }
KruskalShuffle ==
    /\ gen.kind = "kruskal" /\ gen.pc = "shuffle" /\ gen.i >= 1
    /\ \E j \in 0..gen.i :
          gen' = [gen EXCEPT !.edges = Swap(@, gen.i, j), !.i = @ - 1]
    /\ UNCHANGED <<maze, sol, driver>>

\* let mut uf = UnionFind::new(num_rooms)
KruskalUnionFind ==
    /\ gen.kind = "kruskal" /\ gen.pc = "shuffle" /\ gen.i < 1
    /\ gen' = [kind |-> "kruskal", pc |-> "edges", offset |-> gen.offset,
               edges |-> gen.edges, k |-> 1, uf |-> UnionFind_new(gen.num_rooms)]
    /\ UNCHANGED <<maze, sol, driver>>

\* One iteration of `for edge in edges` (kruskal.rs 141-146).
KruskalEdge ==
    /\ gen.kind = "kruskal" /\ gen.pc = "edges" /\ gen.k <= Len(gen.edges)
    /\ LET edge == gen.edges[gen.k]
           u == UnionFind_union(gen.uf, edge.room1, edge.room2)
           wall == unpack_wall_pos(edge.wall_pos)
       IN  /\ gen' = [gen EXCEPT !.uf = u.uf, !.k = @ + 1]
           /\ maze' = IF u.merged THEN set_cell(maze, wall[1], wall[2], TRUE)
                      ELSE maze
    /\ UNCHANGED <<sol, driver>>

\* The edges are used up: the floor cells are collected (kruskal.rs 151-158).
KruskalEnd ==
    /\ gen.kind = "kruskal" /\ gen.pc = "edges" /\ gen.k > Len(gen.edges)
    /\ gen' = [kind |-> "kruskal", pc |-> "pick", offset |-> gen.offset,
               floors |-> FloorSeq(maze), start_idx |-> 0, goal_idx |-> 0]
    /\ UNCHANGED <<maze, sol, driver>>

NextKruskal ==
    KruskalBegin \/ KruskalShuffle \/ KruskalUnionFind \/ KruskalEdge \/ KruskalEnd


(***************************************************************************)
(* generators/wilson.rs                                                    *)
(***************************************************************************)
WILSON_DIRS == <<<<2, 0>>, <<-2, 0>>, <<0, 2>>, <<0, -2>>>>

\* for y in (offset..rows).step_by(2) { for x in (offset..cols).step_by(2) { rooms.push((x, y)) } }
WilsonRooms(rows, cols, offset) ==
    SelectSeq(RowMajor(rows, cols), LAMBDA c : c \in Lattice(rows, cols, offset))

\* offset, the rooms and the first room of the maze (wilson.rs 16-31).
WilsonBegin ==
    /\ gen.kind = "wilson" /\ gen.pc = "begin"
    /\ \E offset \in {0, 1} :
          LET rooms == WilsonRooms(maze.rows, maze.cols, offset)
          IN  IF rooms = <<>>
              THEN gen' = Panic /\ UNCHANGED maze
              ELSE \E first_idx \in 0..(Len(rooms) - 1) :
                      LET c == rooms[first_idx + 1]
                      IN  /\ maze' = set_cell(maze, c[1], c[2], TRUE)
                          /\ gen' = [kind |-> "wilson", pc |-> "outer",
                                     offset |-> offset, rooms |-> rooms,
                                     in_maze |-> {c}]
    /\ UNCHANGED <<sol, driver>>

\* One draw of the loop that picks a root outside the maze (wilson.rs 39-51):
\* a room already in the maze is drawn again.
WilsonPickRoot ==
    /\ gen.kind = "wilson" /\ gen.pc = "outer"
    /\ Cardinality(gen.in_maze) < Len(gen.rooms)
    /\ \E idx \in 0..(Len(gen.rooms) - 1) :
          LET root == gen.rooms[idx + 1]
          IN  IF root \in gen.in_maze
              THEN UNCHANGED gen
              ELSE gen' = [kind |-> "wilson", pc |-> "walk", offset |-> gen.offset,
                           rooms |-> gen.rooms, in_maze |-> gen.in_maze,
                           path |-> <<root>>, index_map |-> (root :> 0)]
    /\ UNCHANGED <<maze, sol, driver>>

\* index_map cleared and not rebuilt.
RebuildIndexMap_Cleared(path) == [c \in {} |-> 0]

\* index_map as rebuilt from a path: each position of the path, in order.
RebuildIndexMap(path) ==
    [c \in SeqSet(path) |->
        (CHOOSE j \in 1..Len(path) :
            path[j] = c /\ \A k \in (j + 1)..Len(path) : path[k] # c) - 1]

\* One iteration of the walk loop (wilson.rs 53-90).
WilsonWalk ==
    /\ gen.kind = "wilson" /\ gen.pc = "walk"
    /\ \E d \in 1..Len(WILSON_DIRS) :
          LET cur == gen.path[Len(gen.path)]
              nx == cur[1] + WILSON_DIRS[d][1]
              ny == cur[2] + WILSON_DIRS[d][2]
              next == <<nx, ny>>
          IN  IF ~InBounds(maze, nx, ny)
              THEN UNCHANGED gen
              ELSE IF next \in gen.in_maze
              THEN gen' = [gen EXCEPT !.pc = "carve", !.path = Append(@, next)]
              ELSE IF next \in DOMAIN gen.index_map
              THEN LET cut == SubSeq(gen.path, 1, gen.index_map[next] + 1)
                   IN  gen' = [gen EXCEPT !.path = cut,
                                          !.index_map = RebuildIndexMap(cut)]
              ELSE gen' = [gen EXCEPT !.path = Append(@, next),
                                      !.index_map = @ @@ (next :> Len(gen.path))]
    /\ UNCHANGED <<maze, sol, driver>>

\* The carving loop (wilson.rs 86-101) from position i of the path on: the
\* maze and in_maze it leaves.
RECURSIVE WilsonCarvePath(_, _, _, _)
WilsonCarvePath(m, in_maze, path, i) ==
    IF i > Len(path) THEN [maze |-> m, in_maze |-> in_maze]
    ELSE LET c == path[i]
             m1 == IF c \notin in_maze THEN set_cell(m, c[1], c[2], TRUE) ELSE m
             w == WallBetween(path[Max(i - 1, 1)], c)
             m2 == IF i > 1 THEN set_cell(m1, w[1], w[2], TRUE) ELSE m1
         IN  WilsonCarvePath(m2, in_maze \cup {c}, path, i + 1)

WilsonCarve ==
    /\ gen.kind = "wilson" /\ gen.pc = "carve"
    /\ LET r == WilsonCarvePath(maze, gen.in_maze, gen.path, 1)
       IN  /\ maze' = r.maze
           /\ gen' = [kind |-> "wilson", pc |-> "outer", offset |-> gen.offset,
                      rooms |-> gen.rooms, in_maze |-> r.in_maze]
    /\ UNCHANGED <<sol, driver>>

\* Every room is in the maze: the floor cells are collected (wilson.rs 111-118).
WilsonEnd ==
    /\ gen.kind = "wilson" /\ gen.pc = "outer"
    /\ Cardinality(gen.in_maze) >= Len(gen.rooms)
    /\ gen' = [kind |-> "wilson", pc |-> "pick", offset |-> gen.offset,
               floors |-> FloorSeq(maze), start_idx |-> 0, goal_idx |-> 0]
    /\ UNCHANGED <<maze, sol, driver>>

NextWilson ==
    WilsonBegin \/ WilsonPickRoot \/ WilsonWalk \/ WilsonCarve \/ WilsonEnd


(***************************************************************************)
(* generators/drunkards_walk.rs.  A coverage is held in hundredths (50 for *)
(* 0.5).  For the coverages and grid sizes of this model the product       *)
(* total_cells as f64 * coverage truncates to the same integer as          *)
(* total_cells * hundredths / 100.                                         *)
(***************************************************************************)
COVERAGE_DEFAULT == 50
COVERAGE_MIN == 1
COVERAGE_MAX == 100

\* GeneratorParams::get: the value of the key, or the default.
GeneratorParams_get(params, key, default) ==
    IF key \in DOMAIN params THEN params[key] ELSE default

Clamp(v, lo, hi) == IF v < lo THEN lo ELSE IF v > hi THEN hi ELSE v

\* ((total_cells as f64 * coverage) as usize).max(2)
DrunkTarget(rows, cols, params) ==
    LET coverage == Clamp(GeneratorParams_get(params, "coverage", COVERAGE_DEFAULT),
                          COVERAGE_MIN, COVERAGE_MAX)
    IN  Max((rows * cols * coverage) \div 100, 2)

DRUNK_DIRECTIONS == <<<<-1, 0>>, <<1, 0>>, <<0, -1>>, <<0, 1>>>>

\* The target, the start position (x, y) and its carving
\* (drunkards_walk.rs 15-30).
DrunkStarted(m, params, x, y) ==
    [maze |-> set_cell(m, x, y, TRUE),
     gen |-> [kind |-> "drunkardswalk", pc |-> "walk",
              target |-> DrunkTarget(m.rows, m.cols, params),
              x |-> x, y |-> y, carved |-> 1]]

DrunkBegin ==
    /\ gen.kind = "drunkardswalk" /\ gen.pc = "begin"
    /\ \E x \in 0..(maze.cols - 1), y \in 0..(maze.rows - 1) :
          /\ maze' = DrunkStarted(maze, gen.params, x, y).maze
          /\ gen' = DrunkStarted(maze, gen.params, x, y).gen
    /\ UNCHANGED <<sol, driver>>

\* The diagonal directions that stay in bounds.
ValidDirs_Diagonal(m, x, y) ==
    SelectSeq(<<<<-1, -1>>, <<1, 1>>, <<1, -1>>, <<-1, 1>>>>,
              LAMBDA d : InBounds(m, x + d[1], y + d[2]))

\* The directions that stay in bounds (drunkards_walk.rs 41-48).
ValidDirs(m, x, y) ==
    SelectSeq(DRUNK_DIRECTIONS, LAMBDA d : InBounds(m, x + d[1], y + d[2]))

\* The move that counts every cell moved onto as carved.
DrunkMoved_CountsVisits(m, g, i) ==
    LET valid_dirs == ValidDirs(m, g.x, g.y)
        x == g.x + valid_dirs[i + 1][1]
        y == g.y + valid_dirs[i + 1][2]
    IN  [maze |-> set_cell(m, x, y, TRUE),
         gen |-> [g EXCEPT !.x = x, !.y = y, !.carved = @ + 1]]

\* The move in the valid direction of index i, and the carving of a wall cell
\* moved onto (drunkards_walk.rs 50-64).
DrunkMoved(m, g, i) ==
    LET valid_dirs == ValidDirs(m, g.x, g.y)
        x == g.x + valid_dirs[i + 1][1]
        y == g.y + valid_dirs[i + 1][2]
    IN  IF ~get_cell(m, x, y)
        THEN [maze |-> set_cell(m, x, y, TRUE),
              gen |-> [g EXCEPT !.x = x, !.y = y, !.carved = @ + 1]]
        ELSE [maze |-> m, gen |-> [g EXCEPT !.x = x, !.y = y]]

\* `while carved < target` goes on, and the pass does not break.
DrunkWalking(m, g) == g.carved < g.target /\ ValidDirs(m, g.x, g.y) # <<>>

\* One iteration of `while carved < target` that moves (drunkards_walk.rs 39-65).
DrunkStep ==
    /\ gen.kind = "drunkardswalk" /\ gen.pc = "walk"
    /\ DrunkWalking(maze, gen)
    /\ \E i \in 0..(Len(ValidDirs(maze, gen.x, gen.y)) - 1) :
          /\ maze' = DrunkMoved(maze, gen, i).maze
          /\ gen' = DrunkMoved(maze, gen, i).gen
    /\ UNCHANGED <<sol, driver>>

\* The defensive carving of drunkards_walk.rs 78-95, from cell i of the
\* row-major scan on: wall cells are carved and pushed until there are two
\* floors.  The row loop breaks once there are two, as the column loop does.
RECURSIVE DrunkPatch(_, _, _)
DrunkPatch(m, floors, i) ==
    IF i > m.rows * m.cols \/ Len(floors) >= 2
    THEN [maze |-> m, floors |-> floors]
    ELSE LET c == RowMajor(m.rows, m.cols)[i]
         IN  IF ~get_cell(m, c[1], c[2])
             THEN DrunkPatch(set_cell(m, c[1], c[2], TRUE), Append(floors, c), i + 1)
             ELSE DrunkPatch(m, floors, i + 1)

\* The floor cells collected and patched (drunkards_walk.rs 67-95).
DrunkCollected(m) ==
    LET floors == FloorSeq(m)
        r == IF Len(floors) < 2
             THEN DrunkPatch(m, floors, 1)
             ELSE [maze |-> m, floors |-> floors]
    IN  [maze |-> r.maze,
         gen |-> [kind |-> "drunkardswalk", pc |-> "pick", floors |-> r.floors,
                  start_idx |-> 0, goal_idx |-> 0]]

\* The walk is over: the target is reached, or no direction is valid.
DrunkEnd ==
    /\ gen.kind = "drunkardswalk" /\ gen.pc = "walk"
    /\ ~DrunkWalking(maze, gen)
    /\ maze' = DrunkCollected(maze).maze
    /\ gen' = DrunkCollected(maze).gen
    /\ UNCHANGED <<sol, driver>>

NextDrunk == DrunkBegin \/ DrunkStep \/ DrunkEnd

(***************************************************************************)
(* generators/searchformer.rs.  indices.shuffle(rng) leaves the indices in *)
(* any order, and the code reads the order only to split them: the first   *)
(* num_walls are walls, the rest passages.  The model keeps the two sets.  *)
(* free_cells.shuffle(rng) puts any two distinct passages first.           *)
(***************************************************************************)
\* The acceptance test without the length test.
Accepts_NonEmpty(solution, rows, cols) == solution.path # <<>>

\* !solution.path.is_empty() && solution.path.len() >= rows.max(cols)
Accepts(solution, rows, cols) ==
    solution.path # <<>> /\ Len(solution.path) >= Max(rows, cols)

IndexCell(idx, cols) == <<idx % cols, idx \div cols>>

\* One pass of the retry loop up to the placements: a fresh wall layout
\* (searchformer.rs 14-43).
SfLayout ==
    /\ gen.kind = "searchformer" /\ gen.pc \in {"begin", "layout"}
    /\ LET total == maze.rows * maze.cols
           base == total \div 10
           min_walls == base * 3
           max_walls == base * 5
       IN  \E num_walls \in min_walls..max_walls :
           \E walls \in {w \in SUBSET (0..(total - 1)) : Cardinality(w) = num_walls} :
              LET passages == (0..(total - 1)) \ walls
              IN  /\ maze' = CarveAll(Maze_new(maze.rows, maze.cols),
                                      {IndexCell(idx, maze.cols) : idx \in passages})
                  /\ gen' = [kind |-> "searchformer", pc |-> "place",
                             free_cells |-> passages, tries |-> 0]
    /\ UNCHANGED <<sol, driver>>

\* The loop over placements goes on: it has passes left and has not hit
\* `if free_cells.len() < 2 { break; }` (searchformer.rs 45, 49-51).
PlacementLeft(g) == g.tries < SfTries /\ Cardinality(g.free_cells) >= 2

\* One placement of start and goal that is solved (searchformer.rs 45-74).
SfPlace ==
    /\ gen.kind = "searchformer" /\ gen.pc = "place"
    /\ PlacementLeft(gen)
    /\ \E start_idx \in gen.free_cells : \E goal_idx \in gen.free_cells \ {start_idx} :
          LET placed == [maze EXCEPT !.start = IndexCell(start_idx, maze.cols),
                                     !.goal = IndexCell(goal_idx, maze.cols)]
              solution == solve(placed)
          IN  /\ maze' = placed
              /\ IF Accepts(solution, maze.rows, maze.cols)
                 THEN gen' = [kind |-> "searchformer", pc |-> "done"]
                 ELSE gen' = [gen EXCEPT !.tries = @ + 1]
    /\ UNCHANGED <<sol, driver>>

\* The placements are used up, or there are fewer than two passages: the
\* layout is dropped and the retry loop goes round to a fresh Maze::new
\* (searchformer.rs 33, 49-51, 76-77).
SfRetry ==
    /\ gen.kind = "searchformer" /\ gen.pc = "place"
    /\ ~PlacementLeft(gen)
    /\ maze' = Maze_new(maze.rows, maze.cols)
    /\ gen' = [kind |-> "searchformer", pc |-> "layout"]
    /\ UNCHANGED <<sol, driver>>

NextSearchformer == SfLayout \/ SfPlace \/ SfRetry


(***************************************************************************)
(* prng.rs.  DefaultHasher and Xoshiro256PlusPlus are library code.  The   *)
(* model keeps 16 bits of state for both: the hasher absorbs a value, and  *)
(* the generator steps, by one step of a linear congruential map, which is *)
(* a bijection of the 16-bit words; a draw of gen_range scales the new     *)
(* state into the range, taking its high bits as rand's widening multiply  *)
(* does.  hash2..hash4 extend hash1 to the 256 bits of the real seed and   *)
(* add nothing to a 16-bit one.                                            *)
(***************************************************************************)
Absorb(h, v) == (((h + v) % 65536) * 25173 + 13849) % 65536

\* #[derive(Hash)] hashes the discriminant of the variant (main.rs 23-35).
GeneratorType == [dfs |-> 0, kruskal |-> 1, wilson |-> 2, searchformer |-> 3,
                  drunkardswalk |-> 4]
SolverType == [astar |-> 0]

create_instance_prng(master_seed, generator, solver, instance_id) ==
    LET hash1 == Absorb(Absorb(Absorb(Absorb(0, master_seed),
                                      GeneratorType[generator]),
                               SolverType[solver]),
                        instance_id)
    IN  hash1

\* rng.gen_range(0..n): the generator stepped, and the value drawn.
gen_range(rng, n) ==
    LET s == Absorb(rng, 0) IN [rng |-> s, value |-> (s * n) \div 65536]

(***************************************************************************)
(* generators::generate_maze and solvers::solve_maze as functions of the   *)
(* random source: the steps of the generator are those of its actions,     *)
(* each draw taken from rng.  The result is the maze and the rng as the    *)
(* generator leaves it.                                                    *)
(***************************************************************************)
\* rng.gen::<f64>() < 0.5: the generator stepped, and whether the high bit
\* of the new state is clear.
gen_below_half(rng) ==
    LET s == Absorb(rng, 0) IN [rng |-> s, value |-> s * 2 < 65536]

\* The post-step from the locals g on: the two draws, the resampling loop
\* and the assignments.
RECURSIVE PostRun(_, _, _)
PostRun(m, g, rng) ==
    IF g.pc = "pick"
    THEN LET s == gen_range(rng, Len(g.floors))
             d == gen_range(s.rng, Len(g.floors))
         IN  PostRun(m, Picked(g, s.value, d.value), d.rng)
    ELSE IF GoalLoopCondition(g)
    THEN LET d == gen_range(rng, Len(g.floors))
         IN  PostRun(m, Resampled(g, d.value), d.rng)
    ELSE [maze |-> Assigned(m, g), rng |-> rng]

RECURSIVE DrunkRun(_, _, _)
DrunkRun(m, g, rng) ==
    IF DrunkWalking(m, g)
    THEN LET d == gen_range(rng, Len(ValidDirs(m, g.x, g.y)))
             r == DrunkMoved(m, g, d.value)
         IN  DrunkRun(r.maze, r.gen, d.rng)
    ELSE LET r == DrunkCollected(m) IN PostRun(r.maze, r.gen, rng)

drunkards_walk_generate(rng, rows, cols, params) ==
    LET x == gen_range(rng, cols)
        y == gen_range(x.rng, rows)
        r == DrunkStarted(Maze_new(rows, cols), params, x.value, y.value)
    IN  DrunkRun(r.maze, r.gen, y.rng)

RECURSIVE DfsRun(_, _, _)
DfsRun(m, g, rng) ==
    IF g.stack = <<>> THEN PostRun(m, DfsCollected(m, g), rng)
    ELSE LET neighbors == DfsNeighbors(m, g.stack[Len(g.stack)])
         IN  IF neighbors # <<>>
             THEN LET d == gen_range(rng, Len(neighbors))
                      r == DfsCarved(m, g, d.value)
                  IN  DfsRun(r.maze, r.gen, d.rng)
             ELSE DfsRun(m, DfsPopped(g), rng)

\* On the grids of DetArgs neither range of dfs.rs 18-19 is empty.
dfs_generate(rng, rows, cols) ==
    LET b == gen_below_half(rng)
        offset == IF b.value THEN 0 ELSE 1
        kx == gen_range(b.rng, (cols - offset) \div 2)
        ky == gen_range(kx.rng, (rows - offset) \div 2)
        r == DfsStarted(Maze_new(rows, cols), offset, kx.value, ky.value)
    IN  DfsRun(r.maze, r.gen, ky.rng)

\* The generators the driver is run with.
generate_maze(generator, rng, rows, cols, params) ==
    CASE generator = "drunkardswalk" -> drunkards_walk_generate(rng, rows, cols, params)
      [] generator = "dfs" -> dfs_generate(rng, rows, cols)

solve_maze(solver, m) ==
    CASE solver = "astar" -> solve(m)

(***************************************************************************)
(* main.rs 176-211: the batches of instance ids, taken by the workers of   *)
(* the thread pool in any order.  The program is run twice on the same     *)
(* arguments, the second time with a batch size and a number of workers of *)
(* its own; driver.first keeps the results of the first run.               *)
(***************************************************************************)
\* (0..count).step_by(BATCH_SIZE)
BatchStarts(count, batch_size) == {b \in 0..(count - 1) : b % batch_size = 0}

\* The body of `for instance_id in batch_start..batch_end` on the locals w
\* of a worker (main.rs 185-206), the rng carried from one instance of the
\* batch to the next.
WorkerInstance_RngPerBatch(w, args) ==
    LET rng == IF "rng" \in DOMAIN w THEN w.rng
               ELSE create_instance_prng(args.seed, args.generator, args.solver,
                                         w.batch_start)
        g == generate_maze(args.generator, rng, args.rows, args.cols, args.params)
        solution == solve_maze(args.solver, g.maze)
    IN  [pc |-> "batch", batch_start |-> w.batch_start, batch_end |-> w.batch_end,
         instance_id |-> w.instance_id + 1,
         batch_results |-> Append(w.batch_results,
                                  [instance_id |-> w.instance_id, maze |-> g.maze,
                                   solution |-> solution, generator |-> args.generator,
                                   solver |-> args.solver, seed |-> args.seed]),
         rng |-> g.rng]

\* The body of `for instance_id in batch_start..batch_end` on the locals w
\* of a worker (main.rs 185-206).  rng is the random source as the pass
\* leaves it.
WorkerInstance(w, args) ==
    LET rng == create_instance_prng(args.seed, args.generator, args.solver,
                                    w.instance_id)
        g == generate_maze(args.generator, rng, args.rows, args.cols, args.params)
        solution == solve_maze(args.solver, g.maze)
    IN  [pc |-> "batch", batch_start |-> w.batch_start, batch_end |-> w.batch_end,
         instance_id |-> w.instance_id + 1,
         batch_results |-> Append(w.batch_results,
                                  [instance_id |-> w.instance_id, maze |-> g.maze,
                                   solution |-> solution, generator |-> args.generator,
                                   solver |-> args.solver, seed |-> args.seed]),
         rng |-> g.rng]

\* The state of a run at the entry of for_each_with.
RunInit(args, run, batch_size, threads, first) ==
    [args |-> args, run |-> run, batch_size |-> batch_size,
     todo |-> BatchStarts(args.count, batch_size),
     workers |-> [w \in 1..threads |-> Idle],
     sent |-> {}, first |-> first]

\* A worker of the pool takes a batch nobody has taken (main.rs 177-183).
TakeBatch ==
    /\ \E w \in DOMAIN driver.workers, batch_start \in driver.todo :
          /\ driver.workers[w] = Idle
          /\ driver' = [driver EXCEPT
                 !.todo = @ \ {batch_start},
                 !.workers[w] = [pc |-> "batch", batch_start |-> batch_start,
                                 batch_end |-> Min(batch_start + driver.batch_size,
                                                   driver.args.count),
                                 instance_id |-> batch_start, batch_results |-> <<>>]]
    /\ UNCHANGED <<maze, gen, sol>>

\* One pass of the loop over the instances of the batch.
RunInstance ==
    /\ \E w \in DOMAIN driver.workers :
          /\ driver.workers[w].pc = "batch"
          /\ driver.workers[w].instance_id < driver.workers[w].batch_end
          /\ driver' = [driver EXCEPT !.workers[w] = WorkerInstance(@, driver.args)]
    /\ UNCHANGED <<maze, gen, sol>>

\* The loop is over: the results of the batch are sent (main.rs 208-210).
SendBatch ==
    /\ \E w \in DOMAIN driver.workers :
          /\ driver.workers[w].pc = "batch"
          /\ driver.workers[w].instance_id >= driver.workers[w].batch_end
          /\ driver' = [driver EXCEPT
                 !.sent = @ \cup SeqSet(driver.workers[w].batch_results),
                 !.workers[w] = Idle]
    /\ UNCHANGED <<maze, gen, sol>>

\* The first run has sent every batch: the program is started again.
SecondRun ==
    /\ driver.run = 1
    /\ driver.todo = {}
    /\ \A w \in DOMAIN driver.workers : driver.workers[w] = Idle
    /\ \E batch_size \in 1..DetMaxBatch, threads \in 1..DetMaxWorkers :
          driver' = RunInit(driver.args, 2, batch_size, threads, driver.sent)
    /\ UNCHANGED <<maze, gen, sol>>

NextDeterminism == TakeBatch \/ RunInstance \/ SendBatch \/ SecondRun


(***************************************************************************)
(* main.rs 136-216: the pipeline.  The workers of the pool serialize each  *)
(* batch and send it on the bounded channel; the writer thread creates the *)
(* file, receives the batches and writes them; main waits for the workers, *)
(* then for the writer.  The maze and solution of a result are those of    *)
(* WorkerInstance; the pipeline carries them unread, and a result is kept  *)
(* here by its instance_id, a record of the output by its idx.             *)
(*   driver.workers[w].pc   "idle", "batch" (in the loop over instances),  *)
(*                          "send" (in tx.send)                            *)
(*   driver.writer.pc       "create", "recv", "write", "final_flush",      *)
(*                          "ok" (returned Ok), "err" (returned Err)       *)
(*   driver.main            "for_each", "join", "success", "error",        *)
(*                          "panic"                                        *)
(*   driver.rx              TRUE while the receiver is alive               *)
(*   driver.arrival         the batches in the order their sends completed *)
(*   driver.flushed         the records of the file that are flushed       *)
(***************************************************************************)
\* let batch_end = (batch_start + BATCH_SIZE as u64).min(count) without min.
BatchEnd_NoMin(batch_start, batch_size, count) == batch_start + batch_size

\* let batch_end = (batch_start + BATCH_SIZE as u64).min(count)
BatchEnd(batch_start, batch_size, count) == Min(batch_start + batch_size, count)

\* process_batch: one record for each result, in the order of the results.
process_batch(results) == [k \in 1..Len(results) |-> [idx |-> results[k].instance_id]]

\* A send that waits when the receiver is gone.
SendOutcome_Hangs(channel, rx) ==
    IF ~rx THEN "block"
    ELSE IF Len(channel) < PipeCapacity THEN "ok" ELSE "block"

\* A send that takes no account of the capacity.
SendOutcome_Unbounded(channel, rx) == IF ~rx THEN "err" ELSE "ok"

\* tx.send on sync_channel(capacity): an error once the receiver is dropped,
\* completion while there is room, and waiting otherwise.
SendOutcome(channel, rx) ==
    IF ~rx THEN "err"
    ELSE IF Len(channel) < PipeCapacity THEN "ok" ELSE "block"

\* The receive that takes the newest batch.
Received_Newest(channel) ==
    [batch_bytes |-> channel[Len(channel)], channel |-> SubSeq(channel, 1, Len(channel) - 1)]

\* The next item of `for batch_bytes in rx`: the oldest batch of the channel.
Received(channel) == [batch_bytes |-> Head(channel), channel |-> Tail(channel)]

PipeInit(count, batch_size, threads) ==
    [count |-> count, batch_size |-> batch_size,
     todo |-> BatchStarts(count, batch_size),
     workers |-> [w \in 1..threads |-> Idle],
     channel |-> <<>>, rx |-> TRUE, arrival |-> <<>>,
     writer |-> [pc |-> "create", total_written |-> 0],
     file |-> <<>>, flushed |-> 0,
     main |-> "for_each", panicked |-> FALSE]

\* A worker takes a batch nobody has taken (main.rs 177-183).
PipeTake ==
    /\ driver.main = "for_each"
    /\ \E w \in DOMAIN driver.workers, batch_start \in driver.todo :
          /\ driver.workers[w] = Idle
          /\ driver' = [driver EXCEPT
                 !.todo = @ \ {batch_start},
                 !.workers[w] = [pc |-> "batch", batch_start |-> batch_start,
                                 batch_end |-> BatchEnd(batch_start, driver.batch_size,
                                                        driver.count),
                                 instance_id |-> batch_start, batch_results |-> <<>>]]
    /\ UNCHANGED <<maze, gen, sol>>

\* One pass of the loop over the instances of the batch (main.rs 185-206).
PipeInstance ==
    /\ \E w \in DOMAIN driver.workers :
          /\ driver.workers[w].pc = "batch"
          /\ driver.workers[w].instance_id < driver.workers[w].batch_end
          /\ driver' = [driver EXCEPT
                 !.workers[w].batch_results =
                     Append(@, [instance_id |-> driver.workers[w].instance_id]),
                 !.workers[w].instance_id = @ + 1]
    /\ UNCHANGED <<maze, gen, sol>>

\* The loop is over: the batch is serialized (main.rs 209).
PipeSerialize ==
    /\ \E w \in DOMAIN driver.workers :
          /\ driver.workers[w].pc = "batch"
          /\ driver.workers[w].instance_id >= driver.workers[w].batch_end
          /\ driver' = [driver EXCEPT
                 !.workers[w] = [pc |-> "send",
                                 batch_bytes |-> process_batch(driver.workers[w].batch_results)]]
    /\ UNCHANGED <<maze, gen, sol>>

\* tx.send(batch_bytes) completes (main.rs 210).
PipeSend ==
    /\ \E w \in DOMAIN driver.workers :
          /\ driver.workers[w].pc = "send"
          /\ SendOutcome(driver.channel, driver.rx) = "ok"
          /\ driver' = [driver EXCEPT
                 !.channel = Append(@, driver.workers[w].batch_bytes),
                 !.arrival = Append(@, driver.workers[w].batch_bytes),
                 !.workers[w] = Idle]
    /\ UNCHANGED <<maze, gen, sol>>

\* tx.send(batch_bytes) returns an error and unwrap panics: the pool catches
\* the panic of the job and keeps it for the caller of for_each_with.
PipeSendFails ==
    /\ \E w \in DOMAIN driver.workers :
          /\ driver.workers[w].pc = "send"
          /\ SendOutcome(driver.channel, driver.rx) = "err"
          /\ driver' = [driver EXCEPT !.workers[w] = Idle, !.panicked = TRUE]
    /\ UNCHANGED <<maze, gen, sol>>

\* for_each_with returns, its senders dropped, or resumes the panic of a job
\* (main.rs 176-211).
PipeForEachEnds ==
    /\ driver.main = "for_each"
    /\ driver.todo = {}
    /\ \A w \in DOMAIN driver.workers : driver.workers[w] = Idle
    /\ driver' = [driver EXCEPT !.main = IF driver.panicked THEN "panic" ELSE "join"]
    /\ UNCHANGED <<maze, gen, sol>>

\* The writer returns an error: the receiver is dropped, and the batches of
\* the channel with it.
WriterFailed(d) ==
    [d EXCEPT !.writer = [pc |-> "err", total_written |-> d.writer.total_written],
              !.rx = FALSE, !.channel = <<>>]

\* File::create(&output_path)? (main.rs 145-146)
WriterCreate ==
    /\ driver.main \in {"for_each", "join"}
    /\ driver.writer.pc = "create"
    /\ \/ driver' = [driver EXCEPT !.writer.pc = "recv"]
       \/ driver' = WriterFailed(driver)
    /\ UNCHANGED <<maze, gen, sol>>

\* `for batch_bytes in rx` gives the next batch, or ends when the channel is
\* empty and every sender is dropped (main.rs 149).
WriterRecv ==
    /\ driver.main \in {"for_each", "join"}
    /\ driver.writer.pc = "recv"
    /\ IF driver.channel # <<>>
       THEN driver' = [driver EXCEPT
                !.writer = [pc |-> "write", total_written |-> driver.writer.total_written,
                            batch_bytes |-> Received(driver.channel).batch_bytes],
                !.channel = Received(driver.channel).channel]
       ELSE /\ driver.main = "join"
            /\ driver' = [driver EXCEPT !.writer.pc = "final_flush"]
    /\ UNCHANGED <<maze, gen, sol>>

\* The body of the loop: write_all, the count, and the flush of every
\* PipeFlushBatches-th batch (main.rs 150-162).
WriterWrite ==
    /\ driver.main \in {"for_each", "join"}
    /\ driver.writer.pc = "write"
    /\ LET total_written == driver.writer.total_written + driver.batch_size
           file == driver.file \o driver.writer.batch_bytes
           written == [driver EXCEPT
                          !.file = file,
                          !.writer = [pc |-> "recv", total_written |-> total_written]]
       IN  \/ driver' = WriterFailed(driver)
           \/ /\ total_written % (PipeFlushBatches * driver.batch_size) # 0
              /\ driver' = written
           \/ /\ total_written % (PipeFlushBatches * driver.batch_size) = 0
              /\ \/ driver' = [written EXCEPT !.flushed = Len(file)]
                 \/ driver' = WriterFailed(written)
    /\ UNCHANGED <<maze, gen, sol>>

\* writer.flush()? and Ok(()) after the loop (main.rs 163-165).
WriterFinalFlush ==
    /\ driver.main \in {"for_each", "join"}
    /\ driver.writer.pc = "final_flush"
    /\ \/ driver' = [driver EXCEPT !.writer.pc = "ok", !.flushed = Len(driver.file)]
       \/ driver' = WriterFailed(driver)
    /\ UNCHANGED <<maze, gen, sol>>

\* writer_handle.join().unwrap()? and the report of success (main.rs 216-224).
MainJoin ==
    /\ driver.main = "join"
    /\ driver.writer.pc \in {"ok", "err"}
    /\ driver' = [driver EXCEPT !.main = IF driver.writer.pc = "ok" THEN "success"
                                         ELSE "error"]
    /\ UNCHANGED <<maze, gen, sol>>

NextPipeline ==
    \/ PipeTake \/ PipeInstance \/ PipeSerialize \/ PipeSend \/ PipeSendFails
    \/ PipeForEachEnds
    \/ WriterCreate \/ WriterRecv \/ WriterWrite \/ WriterFinalFlush
    \/ MainJoin


(***************************************************************************)
(* serializer.rs 21-69: the text field of a record, from `query` to `end`, *)
(* as the sequence of its characters.                                      *)
(***************************************************************************)
\* write!(buffer, "{}", n): the decimal digits of n.
RECURSIVE Decimal(_)
Decimal(n) ==
    LET digit == <<"0", "1", "2", "3", "4", "5", "6", "7", "8", "9">>[(n % 10) + 1]
    IN  IF n < 10 THEN <<digit>> ELSE Decimal(n \div 10) \o <<digit>>

\* The cells in the order of `for x in 0..cols { for y in 0..rows`.
ScanOrder_ColumnMajor(rows, cols) ==
    [i \in 1..(rows * cols) |-> <<(i - 1) \div rows, (i - 1) % rows>>]

\* The cells in the order of `for y in 0..rows { for x in 0..cols`.
ScanOrder(rows, cols) == RowMajor(rows, cols)

\* b" wall " and "{} {}" for each cell of the scan that is not floor.
RECURSIVE WriteWalls(_, _)
WriteWalls(m, cells) ==
    IF cells = <<>> THEN <<>>
    ELSE LET x == Head(cells)[1]
             y == Head(cells)[2]
         IN  (IF ~get_cell(m, x, y)
              THEN <<" ", "w", "a", "l", "l", " ">> \o Decimal(x) \o <<" ">> \o Decimal(y)
              ELSE <<>>)
             \o WriteWalls(m, Tail(cells))

\* b" close " or b" create " and "{} {} c{} c{}" for each event.
RECURSIVE WriteReasoning(_)
WriteReasoning(reasoning) ==
    IF reasoning = <<>> THEN <<>>
    ELSE LET event == Head(reasoning)
         IN  (IF event.kind = "close"
              THEN <<" ", "c", "l", "o", "s", "e", " ">>
              ELSE <<" ", "c", "r", "e", "a", "t", "e", " ">>)
             \o Decimal(event.x) \o <<" ">> \o Decimal(event.y)
             \o <<" ", "c">> \o Decimal(event.g) \o <<" ", "c">> \o Decimal(event.h)
             \o WriteReasoning(Tail(reasoning))

\* b" plan " and "{} {}" for each cell of the path.
RECURSIVE WritePlan(_)
WritePlan(path) ==
    IF path = <<>> THEN <<>>
    ELSE <<" ", "p", "l", "a", "n", " ">>
         \o Decimal(Head(path)[1]) \o <<" ">> \o Decimal(Head(path)[2])
         \o WritePlan(Tail(path))

write_maze_json(result) ==
    <<"q", "u", "e", "r", "y", " ", "s", "t", "a", "r", "t", " ">>
    \o Decimal(result.maze.start[1]) \o <<" ">> \o Decimal(result.maze.start[2])
    \o <<" ", "g", "o", "a", "l", " ">>
    \o Decimal(result.maze.goal[1]) \o <<" ">> \o Decimal(result.maze.goal[2])
    \o WriteWalls(result.maze, ScanOrder(result.maze.rows, result.maze.cols))
    \o <<" ", "r", "e", "a", "s", "o", "n", "i", "n", "g">>
    \o WriteReasoning(result.solution.reasoning)
    \o <<" ", "s", "o", "l", "u", "t", "i", "o", "n">>
    \o WritePlan(result.solution.path)
    \o <<" ", "e", "n", "d">>

\* The loop body of main solves the maze (main.rs 194-205) and process_batch
\* writes the record of the result (serializer.rs 123).
SerializeResult ==
    /\ driver = Idle
    /\ LET result == [maze |-> maze, solution |-> solve(maze)]
       IN  driver' = [pc |-> "written", result |-> result,
                      text |-> write_maze_json(result)]
    /\ UNCHANGED <<maze, gen, sol>>

NextSerializer == SerializeResult


(***************************************************************************)
(* Reference definitions for the properties.                               *)
(***************************************************************************)
Adjacent(a, b) == Abs(a[1] - b[1]) + Abs(a[2] - b[2]) = 1

\* Breadth-first search on the 4-connected floor graph: the number of
\* steps from a cell of `frontier` (at depth d) to `target`, -1 if none.
RECURSIVE BfsFrom(_, _, _, _, _)
BfsFrom(floors, frontier, visited, target, d) ==
    IF target \in frontier THEN d
    ELSE LET next == {c \in floors \ visited : \E b \in frontier : Adjacent(b, c)}
         IN  IF next = {} THEN -1
             ELSE BfsFrom(floors, next, visited \cup next, target, d + 1)

BfsDist(m) == BfsFrom(FloorSet(m), {m.start}, {m.start}, m.goal, 0)

Neighbours(c) == {<<c[1] - 1, c[2]>>, <<c[1] + 1, c[2]>>, <<c[1], c[2] - 1>>, <<c[1], c[2] + 1>>}

\* The cells a flood fill reaches through `floors`: `reached` so far, of
\* which `frontier` are the newest.
RECURSIVE FloodFrom(_, _, _)
FloodFrom(floors, frontier, reached) ==
    LET next == ((UNION {Neighbours(b) : b \in frontier}) \cap floors) \ reached
    IN  IF next = {} THEN reached ELSE FloodFrom(floors, next, reached \cup next)

Flood(floors, from) == FloodFrom(floors, from, from)

CellIdx(m, c) == c[2] * m.cols + c[1]

HasWall(m) == FloorSet(m) # Cells(m.rows, m.cols)

(***************************************************************************)
(* C2  A* optimality.  When solve has returned on a maze whose start and   *)
(* goal are distinct floor cells and the goal is reachable, the number of  *)
(* cells of the path is the breadth-first distance plus one; on the 5x5    *)
(* all-floor maze from (0,0) to (4,4) it is 9.                             *)
(***************************************************************************)
C2_AStarOptimal ==
    (sol.pc = "done" /\ maze.start # maze.goal /\ BfsDist(maze) >= 0)
        => /\ Len(sol.path) = BfsDist(maze) + 1
           /\ (maze = MazeWith(5, 5, Cells(5, 5), <<0, 0>>, <<4, 4>>)
                  => Len(sol.path) = 9)

\* solve has returned a path that had to go round a wall.
C2_Witness ==
    /\ sol.pc = "done"
    /\ maze.start # maze.goal
    /\ BfsDist(maze) > manhattan_distance(maze.start[1], maze.start[2],
                                          maze.goal[1], maze.goal[2])
    /\ Len(sol.path) = BfsDist(maze) + 1

(***************************************************************************)
(* C3  A* solution validity.  A non-empty returned path starts at start,   *)
(* ends at goal, steps between orthogonally adjacent cells, stays on       *)
(* floor cells, and has g_scores[goal] + 1 cells.                          *)
(***************************************************************************)
C3_PathValid ==
    (sol.pc = "done" /\ sol.path # <<>>)
        => /\ sol.path[1] = maze.start
           /\ sol.path[Len(sol.path)] = maze.goal
           /\ \A i \in 1..(Len(sol.path) - 1) : Adjacent(sol.path[i], sol.path[i + 1])
           /\ \A i \in 1..Len(sol.path) : get_cell(maze, sol.path[i][1], sol.path[i][2])
           /\ Len(sol.path) = sol.g_scores[CellIdx(maze, maze.goal)] + 1

\* A returned path of at least four cells in a maze with walls.
C3_Witness ==
    /\ sol.pc = "done"
    /\ Len(sol.path) >= 4
    /\ HasWall(maze)

(***************************************************************************)
(* C4  A* service order.  The node popped has the lowest f_score of the    *)
(* queue it is popped from.  As claimed: among the queued nodes with that  *)
(* f_score it has the largest g_score.  As amended: the smallest.          *)
(***************************************************************************)
PoppedHasLowestF ==
    \A o \in SeqSet(sol.popped_from) : sol.current_node.f_score <= o.f_score

C4_PopPrefersLargerG ==
    /\ PoppedHasLowestF
    /\ \A o \in SeqSet(sol.popped_from) :
          o.f_score = sol.current_node.f_score
             => sol.current_node.g_score >= o.g_score

C4_PopPrefersSmallerG ==
    /\ PoppedHasLowestF
    /\ \A o \in SeqSet(sol.popped_from) :
          o.f_score = sol.current_node.f_score
             => sol.current_node.g_score <= o.g_score

\* A pop from a queue holding two nodes of the lowest f_score that differ
\* in g_score.
C4_Witness ==
    \E a, b \in SeqSet(sol.popped_from) :
        /\ a.f_score = sol.current_node.f_score
        /\ b.f_score = sol.current_node.f_score
        /\ a.g_score < b.g_score

(***************************************************************************)
(* C5  Reasoning trace ordering.  In the trace, no cell has two close      *)
(* events and no create event of a cell comes after the close event of     *)
(* that cell.                                                              *)
(***************************************************************************)
SameCell(e1, e2) == e1.x = e2.x /\ e1.y = e2.y

C5_TraceOrdered ==
    \A i, j \in 1..Len(sol.reasoning) :
        (i < j /\ sol.reasoning[i].kind = "close"
               /\ SameCell(sol.reasoning[i], sol.reasoning[j]))
            => FALSE

\* A finished trace in which a cell was created, closed, and a neighbour
\* of it closed later still.
C5_Witness ==
    /\ sol.pc = "done"
    /\ \E i, j, k \in 1..Len(sol.reasoning) :
          /\ i < j /\ j < k
          /\ sol.reasoning[i].kind = "create"
          /\ sol.reasoning[j].kind = "close"
          /\ SameCell(sol.reasoning[i], sol.reasoning[j])
          /\ sol.reasoning[k].kind = "close"
          /\ Adjacent(<<sol.reasoning[j].x, sol.reasoning[j].y>>,
                      <<sol.reasoning[k].x, sol.reasoning[k].y>>)

(***************************************************************************)
(* Specifications of the generators.                                       *)
(***************************************************************************)
Dims(maxRows, maxCols) == (1..maxRows) \X (1..maxCols)

InitDfs == \E d \in Dims(DfsMaxDim, DfsMaxDim) : GenInit("dfs", d[1], d[2])

SpecDfs == InitDfs /\ [][NextDfs \/ PostStep]_vars

InitKruskal ==
    \E d \in Dims(KruskalMaxRows, KruskalMaxCols) : GenInit("kruskal", d[1], d[2])

SpecKruskal == InitKruskal /\ [][NextKruskal \/ PostStep]_vars

InitWilson ==
    \E d \in Dims(WilsonMaxDim, WilsonMaxDim) : GenInit("wilson", d[1], d[2])

SpecWilson == InitWilson /\ [][NextWilson \/ PostStep]_vars

\* The coverages given: none, and 0, 0.01, 0.5, 1.0 and 1.5.
DrunkParams == {<<>>} \cup {[coverage |-> c] : c \in {0, 1, 50, 100, 150}}

InitDrunk ==
    \E d \in {d \in Dims(DrunkMaxCells, DrunkMaxCells) : d[1] * d[2] <= DrunkMaxCells} :
    \E params \in DrunkParams :
       /\ maze = Maze_new(d[1], d[2])
       /\ gen = [kind |-> "drunkardswalk", pc |-> "begin", params |-> params]
       /\ sol = Idle
       /\ driver = Idle

SpecDrunk == InitDrunk /\ [][NextDrunk \/ PostStep]_vars

InitSearchformer ==
    \E d \in {d \in Dims(SfMaxDim, SfMaxDim) : d[1] * d[2] <= SfMaxCells} :
       GenInit("searchformer", d[1], d[2])

SpecSearchformer == InitSearchformer /\ [][NextSearchformer]_vars


\* The arguments of main: the drunkard's walk on grids of one to six cells,
\* the DFS generator on grids where it returns for either offset.
DetArgs ==
    {[seed |-> seed, generator |-> "drunkardswalk", solver |-> "astar",
      rows |-> d[1], cols |-> d[2], count |-> DetCount, params |-> params] :
        seed \in 0..DetMaxSeed, d \in {<<1, 1>>, <<2, 2>>, <<2, 3>>},
        params \in {<<>>, [coverage |-> 100]}}
    \cup
    {[seed |-> seed, generator |-> "dfs", solver |-> "astar",
      rows |-> d[1], cols |-> d[2], count |-> DetCount, params |-> <<>>] :
        seed \in 0..DetMaxSeed, d \in {<<4, 4>>, <<4, 5>>, <<5, 5>>}}

InitDeterminism ==
    /\ \E args \in DetArgs, batch_size \in 1..DetMaxBatch, threads \in 1..DetMaxWorkers :
          driver = RunInit(args, 1, batch_size, threads, {})
    /\ maze = Maze_new(driver.args.rows, driver.args.cols)
    /\ gen = Idle
    /\ sol = Idle

SpecDeterminism == InitDeterminism /\ [][NextDeterminism]_vars

\* The mazes get_cell and set_cell are applied to: every wall layout of
\* every grid of at most MazeMaxCells cells, and the layouts of the grid of
\* WideRows x WideCols whose floor cells are among the first, eighth and
\* ninth cells of the first two rows.
MazeDims ==
    {d \in (1..MazeMaxCells) \X (1..MazeMaxCells) : d[1] * d[2] <= MazeMaxCells}

WideProbes == {<<0, 0>>, <<7, 0>>, <<8, 0>>, <<0, 1>>, <<7, 1>>, <<8, 1>>}

InitMaze ==
    /\ \/ \E d \in MazeDims : \E floors \in SUBSET Cells(d[1], d[2]) :
             \E goal \in {<<0, 0>>, <<d[2] - 1, d[1] - 1>>} :
                maze = MazeWith(d[1], d[2], floors, <<0, 0>>, goal)
       \/ \E floors \in SUBSET WideProbes :
             maze = MazeWith(WideRows, WideCols, floors, <<0, 0>>,
                             <<WideCols - 1, WideRows - 1>>)
    /\ gen = Idle
    /\ sol = Idle
    /\ driver = Idle

\* A caller applies set_cell to the maze, at coordinates in the grid or up
\* to two beyond it (types.rs 38-49).
MazeSetCell ==
    /\ driver = Idle
    /\ \E x \in 0..(maze.cols + 1), y \in 0..(maze.rows + 1), value \in BOOLEAN :
          /\ maze' = set_cell(maze, x, y, value)
          /\ driver' = [pc |-> "set_cell", x |-> x, y |-> y, value |-> value,
                        before |-> maze]
    /\ UNCHANGED <<gen, sol>>

NextMaze == MazeSetCell

SpecMaze == InitMaze /\ [][NextMaze]_vars

InitSerializer ==
    /\ \/ \E d \in (1..SerMaxCells) \X (1..SerMaxCells) :
             /\ d[1] * d[2] <= SerMaxCells
             /\ \E floors \in SUBSET Cells(d[1], d[2]) : \E s \in floors, g \in floors :
                    maze = MazeWith(d[1], d[2], floors, s, g)
       \/ \E k \in {SerWideCols - 2, SerWideCols} :
             maze = MazeWith(1, SerWideCols, Cells(1, k), <<0, 0>>, <<k - 1, 0>>)
    /\ gen = Idle
    /\ sol = Idle
    /\ driver = Idle

SpecSerializer == InitSerializer /\ [][NextSerializer]_vars

InitPipeline ==
    /\ \E count \in 0..PipeMaxCount, batch_size \in 1..PipeMaxBatch,
          threads \in 1..PipeMaxWorkers :
          driver = PipeInit(count, batch_size, threads)
    /\ maze = Maze_new(1, 1)
    /\ gen = Idle
    /\ sol = Idle

SpecPipeline == InitPipeline /\ [][NextPipeline]_vars

InitGenerators == InitDfs \/ InitKruskal \/ InitWilson \/ InitDrunk

NextGenerators == NextDfs \/ NextKruskal \/ NextWilson \/ NextDrunk \/ PostStep

\* The four generators that are not the sampler, each on its own grids.
SpecGenerators == InitGenerators /\ [][NextGenerators]_vars

Returned == gen.pc = "done"

(***************************************************************************)
(* C6  Connectivity of the lattice generators.  In every maze the DFS,     *)
(* Kruskal or Wilson generator returns, a flood fill from any floor cell   *)
(* reaches every floor cell, and solve finds a path from start to goal.    *)
(***************************************************************************)
C6_LatticeConnected ==
    (Returned /\ gen.kind \in {"dfs", "kruskal", "wilson"}) =>
        LET floors == FloorSet(maze)
        IN  /\ floors # {}
            /\ \A c \in floors : Flood(floors, {c}) = floors
            /\ BfsDist(maze) >= 0
            /\ solve(maze).path # <<>>

\* A maze Wilson's algorithm returns that has walls and at least four rooms.
C6_Witness ==
    /\ Returned /\ gen.kind = "wilson"
    /\ HasWall(maze)
    /\ Cardinality(Lattice(maze.rows, maze.cols, gen.offset)) >= 4
    /\ maze.start # maze.goal

(***************************************************************************)
(* C7  Valid instance on return.  Whenever a generator returns a maze,     *)
(* maze.start and maze.goal are two distinct, in-bounds floor cells.       *)
(***************************************************************************)
C7_StartGoalValid ==
    Returned =>
        /\ maze.start # maze.goal
        /\ InBounds(maze, maze.start[1], maze.start[2])
        /\ InBounds(maze, maze.goal[1], maze.goal[2])
        /\ get_cell(maze, maze.start[1], maze.start[2])
        /\ get_cell(maze, maze.goal[1], maze.goal[2])

(***************************************************************************)
(* C8  The generators that are not the sampler terminate.  A generator     *)
(* that has not returned can take a step that changes its state: it has    *)
(* not panicked, and it is not in a loop whose every pass leaves the state *)
(* as it was.                                                              *)
(***************************************************************************)
C8_GeneratorsTerminate == Returned \/ ENABLED <<NextGenerators>>_vars

(***************************************************************************)
(* C9  Kruskal spanning tree.  In every maze the Kruskal generator         *)
(* returns, the floor cells that are not rooms number the rooms minus one, *)
(* and there is exactly one simple floor path between any two rooms.       *)
(***************************************************************************)
RECURSIVE SumOver(_, _)
SumOver(f, S) ==
    IF S = {} THEN 0
    ELSE LET c == CHOOSE c \in S : TRUE IN f[c] + SumOver(f, S \ {c})

\* The number of simple paths from a to b through floors that avoid visited.
RECURSIVE SimplePaths(_, _, _, _)
SimplePaths(floors, a, b, visited) ==
    IF a = b THEN 1
    ELSE LET next == {c \in floors \ visited : Adjacent(a, c)}
         IN  SumOver([c \in next |-> SimplePaths(floors, c, b, visited \cup {c})], next)

C9_KruskalSpanningTree ==
    (Returned /\ gen.kind = "kruskal") =>
        LET floors == FloorSet(maze)
            rooms == Lattice(maze.rows, maze.cols, gen.offset)
        IN  /\ rooms \subseteq floors
            /\ Cardinality(floors \ rooms) = Cardinality(rooms) - 1
            /\ \A a \in rooms : \A b \in rooms : SimplePaths(floors, a, b, {a}) = 1

\* A maze of 2 x 3 rooms that Kruskal's algorithm returns.
C9_Witness ==
    /\ Returned /\ gen.kind = "kruskal"
    /\ Cardinality(Lattice(maze.rows, maze.cols, gen.offset)) = 6
    /\ Cardinality(FloorSet(maze)) = 11
    /\ maze.start # maze.goal

Results ==
    driver.sent \cup UNION {SeqSet(driver.workers[w].batch_results) :
                               w \in {v \in DOMAIN driver.workers :
                                         driver.workers[v].pc = "batch"}}

\* The maze and solution a source of its own gives instance i.
InstanceAlone(args, i) ==
    LET g == generate_maze(args.generator,
                           create_instance_prng(args.seed, args.generator, args.solver, i),
                           args.rows, args.cols, args.params)
    IN  [maze |-> g.maze, solution |-> solve_maze(args.solver, g.maze)]

WallCount(m) == Cardinality(Cells(m.rows, m.cols) \ FloorSet(m))

C11_WallDensity ==
    (gen.kind = "searchformer" /\ gen.pc = "place") =>
        LET total == maze.rows * maze.cols
            walls == WallCount(maze)
        IN  3 * total <= 10 * walls /\ 10 * walls <= 5 * total

(***************************************************************************)
(* C12  Backpressure.  The channel never holds more than its capacity of   *)
(* serialized batches, a producer whose send waits on the full channel     *)
(* does nothing else while it waits, and the serialized batches alive at   *)
(* once (those of the channel, those the producers hold in send and the    *)
(* one the writer is writing) are at most the capacity, plus the number of *)
(* workers, plus one.                                                      *)
(***************************************************************************)
Holding(d) == {w \in DOMAIN d.workers : d.workers[w].pc = "send"}

Alive(d) ==
    Len(d.channel) + Cardinality(Holding(d)) + (IF d.writer.pc = "write" THEN 1 ELSE 0)

C12_Bounded ==
    /\ Len(driver.channel) <= PipeCapacity
    /\ Alive(driver) <= PipeCapacity + Cardinality(DOMAIN driver.workers) + 1

C12_BlockedWaits ==
    \A w \in Holding(driver) :
        SendOutcome(driver.channel, driver.rx) = "block" =>
            driver'.workers[w] = driver.workers[w]

C12_Backpressure == []C12_Bounded /\ [][C12_BlockedWaits]_vars

\* C12 as stated: the batches alive are at most the capacity plus the number
\* of workers.
C12_AliveWithinCapacityPlusWorkers ==
    Alive(driver) <= PipeCapacity + Cardinality(DOMAIN driver.workers)

C12_Witness ==
    /\ Cardinality(DOMAIN driver.workers) = 2
    /\ Len(driver.channel) = PipeCapacity
    /\ Holding(driver) = DOMAIN driver.workers
    /\ driver.writer.pc = "write"
    /\ driver.rx

(***************************************************************************)
(* C13  Arrival-order output.  The output is the concatenation of the      *)
(* whole buffers of the batches written so far, which are the first        *)
(* batches in the order their sends completed; the batch the writer is     *)
(* writing is the next one of that order and the channel holds the ones    *)
(* after it, in that order.  With two workers the records of the output    *)
(* need not be in ascending order of idx (C13_Witness).                    *)
(***************************************************************************)
RECURSIVE Concat(_)
Concat(batches) ==
    IF batches = <<>> THEN <<>> ELSE Head(batches) \o Concat(Tail(batches))

BatchesWritten(d) == d.writer.total_written \div d.batch_size

StepsLeft(d) ==
    LET todo == [b \in d.todo |-> BatchEnd(b, d.batch_size, d.count) - b + 5]
        worker == [w \in DOMAIN d.workers |->
                      CASE d.workers[w].pc = "batch" ->
                               d.workers[w].batch_end - d.workers[w].instance_id + 4
                        [] d.workers[w].pc = "send" -> 3
                        [] OTHER -> 0]
        writer == CASE d.writer.pc = "create" -> 3
                    [] d.writer.pc = "recv" -> 2
                    [] d.writer.pc = "write" -> 3
                    [] d.writer.pc = "final_flush" -> 1
                    [] OTHER -> 0
        main == CASE d.main = "for_each" -> 2
                  [] d.main = "join" -> 1
                  [] OTHER -> 0
    IN  SumOver(todo, d.todo) + SumOver(worker, DOMAIN d.workers)
        + 2 * Len(d.channel) + writer + main

C14_SuccessIsComplete ==
    driver.main = "success" =>
        /\ driver.todo = {}
        /\ \A w \in DOMAIN driver.workers : driver.workers[w] = Idle
        /\ driver.channel = <<>>
        /\ driver.writer.pc = "ok"
        /\ driver.flushed = Len(driver.file)
        /\ Len(driver.file) = driver.count
        /\ \A i \in 0..(driver.count - 1) :
               Cardinality({k \in DOMAIN driver.file : driver.file[k].idx = i}) = 1

C14_NoDeadlock ==
    driver.rx => (driver.main = "success" \/ ENABLED <<NextPipeline /\ driver'.rx>>_vars)

C14_Progress == driver'.rx => StepsLeft(driver') < StepsLeft(driver)

C14_Completion == [](C14_SuccessIsComplete /\ C14_NoDeadlock) /\ [][C14_Progress]_vars

C14_Witness ==
    /\ driver.main = "success"
    /\ driver.count = 5
    /\ driver.batch_size = 2
    /\ Cardinality(DOMAIN driver.workers) = 2

(***************************************************************************)
(* C15  I/O failure aborts the run.  Once the writer has failed to create, *)
(* write or flush, success is not reported, then or later; the send of     *)
(* every producer that holds a batch fails instead of waiting; and the run *)
(* goes on, each step lowering StepsLeft, until main has ended with the    *)
(* error of the writer or with the panic of a producer.                    *)
(***************************************************************************)
C15_Aborted ==
    ~driver.rx =>
        /\ driver.writer.pc = "err"
        /\ driver.main # "success"
        /\ \A w \in Holding(driver) : SendOutcome(driver.channel, driver.rx) = "err"
        /\ driver.main \in {"error", "panic"} \/ ENABLED <<NextPipeline>>_vars

C15_StaysAborted ==
    ~driver.rx => (~driver'.rx /\ StepsLeft(driver') < StepsLeft(driver))

C15_IoFailureAborts == []C15_Aborted /\ [][C15_StaysAborted]_vars

C15_Witness ==
    /\ ~driver.rx
    /\ driver.main = "panic"
    /\ driver.file # <<>>
    /\ Cardinality(DOMAIN driver.workers) = 2

(***************************************************************************)
(* C16  Unreachable goal.  When solve has returned on a maze whose goal    *)
(* cannot be reached from the start, the path is empty and the trace has   *)
(* one close event, and no more, for every cell reachable from the start   *)
(* and for no other cell; when the goal can be reached the path is not     *)
(* empty.                                                                  *)
(***************************************************************************)
Closes(reasoning, c) ==
    {i \in 1..Len(reasoning) :
        reasoning[i].kind = "close" /\ reasoning[i].x = c[1] /\ reasoning[i].y = c[2]}

C16_FullTrace ==
    (sol.pc = "done" /\ BfsDist(maze) < 0) =>
        /\ sol.path = <<>>
        /\ \A c \in Cells(maze.rows, maze.cols) :
               Cardinality(Closes(sol.reasoning, c)) =
                   IF c \in Flood(FloorSet(maze), {maze.start}) THEN 1 ELSE 0

C16_ReachablePath == (sol.pc = "done" /\ BfsDist(maze) >= 0) => sol.path # <<>>

C16_UnreachableGoal == C16_FullTrace /\ C16_ReachablePath

C16_DistinctReachablePath ==
    (sol.pc = "done" /\ BfsDist(maze) >= 0 /\ maze.start # maze.goal) => sol.path # <<>>

(***************************************************************************)
(* C17  Out-of-bounds maze access.  get_cell is false at every coordinate  *)
(* with x >= cols or y >= rows.  After set_cell at such a coordinate the   *)
(* maze is what it was: grid, start, goal and dimensions.  After set_cell  *)
(* at a coordinate of the grid, get_cell gives the value set at that       *)
(* coordinate and what it gave before at every other coordinate, and the   *)
(* start, the goal and the dimensions are what they were.                  *)
(***************************************************************************)
OutOfBounds(m, x, y) == x >= m.cols \/ y >= m.rows

C17_OutOfBoundsAccess ==
    /\ \A x \in 0..(maze.cols + 1), y \in 0..(maze.rows + 1) :
           OutOfBounds(maze, x, y) => ~get_cell(maze, x, y)
    /\ driver.pc = "set_cell" =>
           IF OutOfBounds(driver.before, driver.x, driver.y)
           THEN maze = driver.before
           ELSE /\ maze.start = driver.before.start
                /\ maze.goal = driver.before.goal
                /\ maze.rows = driver.before.rows
                /\ maze.cols = driver.before.cols
                /\ maze.cols_bytes = driver.before.cols_bytes
                /\ Len(maze.grid) = Len(driver.before.grid)
                /\ \A x \in 0..(maze.cols + 1), y \in 0..(maze.rows + 1) :
                       get_cell(maze, x, y) =
                           IF x = driver.x /\ y = driver.y THEN driver.value
                           ELSE get_cell(driver.before, x, y)

\* The cell of the ninth column of the second row, the first bit of the
\* last byte of the grid, has been carved next to two floor cells.
C17_Witness ==
    /\ driver.pc = "set_cell"
    /\ maze.cols = WideCols
    /\ driver.x = 8 /\ driver.y = 1 /\ driver.value
    /\ ~get_cell(driver.before, 8, 1)
    /\ get_cell(maze, 8, 1)
    /\ get_cell(maze, 7, 1) /\ get_cell(maze, 8, 0)

(***************************************************************************)
(* C18  Record text layout.  Split at its spaces, the text of a record is  *)
(* the words and numbers of: query start sx sy goal gx gy; wall x y for    *)
(* each wall cell and no other, y ascending, then x ascending; reasoning;  *)
(* close x y cg ch or create x y cg ch for each event of the trace in its  *)
(* order; solution; plan x y for each cell of the path in its order; end.  *)
(* No token is empty: the text has single spaces between tokens and none   *)
(* at its ends.                                                            *)
(***************************************************************************)
\* The tokens of a text: the runs of characters between its spaces.
Split(text) ==
    LET spaces == {i \in 1..Len(text) : text[i] = " "}
        \* The position of the k-th space; 0 and Len(text) + 1 stand for
        \* the ends of the text.
        Space(k) == IF k = 0 THEN 0
                    ELSE IF k > Cardinality(spaces) THEN Len(text) + 1
                    ELSE CHOOSE i \in spaces :
                             Cardinality({s \in spaces : s < i}) = k - 1
    IN  [k \in 1..(Cardinality(spaces) + 1) |->
            SubSeq(text, Space(k - 1) + 1, Space(k) - 1)]

DigitValue(ch) ==
    CASE ch = "0" -> 0 [] ch = "1" -> 1 [] ch = "2" -> 2 [] ch = "3" -> 3 [] ch = "4" -> 4
      [] ch = "5" -> 5 [] ch = "6" -> 6 [] ch = "7" -> 7 [] ch = "8" -> 8 [] ch = "9" -> 9
      [] OTHER -> -1

IsNumber(token) ==
    /\ token # <<>>
    /\ \A i \in 1..Len(token) : DigitValue(token[i]) >= 0
    /\ Len(token) > 1 => token[1] # "0"

RECURSIVE NumberValue(_)
NumberValue(token) ==
    IF token = <<>> THEN 0
    ELSE 10 * NumberValue(SubSeq(token, 1, Len(token) - 1)) + DigitValue(token[Len(token)])

Word(chars) == [kind |-> "word", chars |-> chars, value |-> 0]

Number(n) == [kind |-> "number", chars |-> <<>>, value |-> n]

Cost(n) == [kind |-> "cost", chars |-> <<>>, value |-> n]

\* What a token reads as: a number, a cost (c and a number) or a word.
Read(token) ==
    IF IsNumber(token) THEN Number(NumberValue(token))
    ELSE IF token # <<>> /\ token[1] = "c" /\ IsNumber(Tail(token))
         THEN Cost(NumberValue(Tail(token)))
    ELSE Word(token)

\* The cells of a set, y ascending, then x ascending.
RECURSIVE Ascending(_)
Ascending(S) ==
    IF S = {} THEN <<>>
    ELSE LET first == CHOOSE c \in S :
                         \A d \in S : c[2] < d[2] \/ (c[2] = d[2] /\ c[1] <= d[1])
         IN  <<first>> \o Ascending(S \ {first})

Groups(items, Group(_)) == Concat([i \in 1..Len(items) |-> Group(items[i])])

Layout(result) ==
    LET m == result.maze
        WallGroup(c) == <<Word(<<"w", "a", "l", "l">>), Number(c[1]), Number(c[2])>>
        EventGroup(e) ==
            <<IF e.kind = "close" THEN Word(<<"c", "l", "o", "s", "e">>)
              ELSE Word(<<"c", "r", "e", "a", "t", "e">>),
              Number(e.x), Number(e.y), Cost(e.g), Cost(e.h)>>
        PlanGroup(c) == <<Word(<<"p", "l", "a", "n">>), Number(c[1]), Number(c[2])>>
    IN  <<Word(<<"q", "u", "e", "r", "y">>), Word(<<"s", "t", "a", "r", "t">>),
          Number(m.start[1]), Number(m.start[2]),
          Word(<<"g", "o", "a", "l">>), Number(m.goal[1]), Number(m.goal[2])>>
        \o Groups(Ascending(Cells(m.rows, m.cols) \ FloorSet(m)), WallGroup)
        \o <<Word(<<"r", "e", "a", "s", "o", "n", "i", "n", "g">>)>>
        \o Groups(result.solution.reasoning, EventGroup)
        \o <<Word(<<"s", "o", "l", "u", "t", "i", "o", "n">>)>>
        \o Groups(result.solution.path, PlanGroup)
        \o <<Word(<<"e", "n", "d">>)>>

C18_TextLayout ==
    driver.pc = "written" =>
        LET tokens == Split(driver.text)
        IN  /\ \A i \in 1..Len(tokens) : tokens[i] # <<>>
            /\ [i \in 1..Len(tokens) |-> Read(tokens[i])] = Layout(driver.result)

\* A record with walls in two rows, a trace with both kinds of event and a
\* path; and one with a two-digit column.
C18_Witness ==
    /\ driver.pc = "written"
    /\ \E c, d \in Cells(maze.rows, maze.cols) \ FloorSet(maze) : c[2] < d[2] /\ d[1] < c[1]
    /\ \E i, j \in 1..Len(driver.result.solution.reasoning) :
          /\ driver.result.solution.reasoning[i].kind = "close"
          /\ driver.result.solution.reasoning[j].kind = "create"
    /\ Len(driver.result.solution.path) >= 2

(***************************************************************************)
(* C19  Drunkard's walk carve count.  When the walk is over and the floor  *)
(* cells are collected, the maze has at least min(target, rows * cols)     *)
(* floor cells and at most rows * cols, target being the one computed at   *)
(* the start, max(floor(coverage * rows * cols), 2) with the coverage      *)
(* clamped; the choice of start and goal that follows carves nothing, so   *)
(* the returned maze has these floor cells.  While the walk goes on,       *)
(* carved is the number of floor cells.                                    *)
(***************************************************************************)
C19_Counted ==
    (gen.kind = "drunkardswalk" /\ gen.pc = "walk") =>
        gen.carved = Cardinality(FloorSet(maze))

C19_Collected ==
    gen.kind = "drunkardswalk" =>
        /\ (gen.pc = "walk" /\ gen'.pc # "walk") =>
               /\ Cardinality(FloorSet(maze')) >= Min(gen.target, maze.rows * maze.cols)
               /\ Cardinality(FloorSet(maze')) <= maze.rows * maze.cols
        /\ gen.pc \notin {"begin", "walk"} => maze'.grid = maze.grid

C19_CarveCount == []C19_Counted /\ [][C19_Collected]_vars

\* A returned maze of the walk with three floor cells or more and a wall.
C19_Witness ==
    /\ gen.kind = "drunkardswalk" /\ gen.pc = "done"
    /\ Cardinality(FloorSet(maze)) >= 3
    /\ HasWall(maze)

(***************************************************************************)
(* C20  Connectivity of the drunkard's walk.  As claimed: the generator    *)
(* can return a maze whose floor cells are not all connected, that is, on  *)
(* some grid, with some coverage and some sequence of draws, the walk ends *)
(* with such a maze (C20_CanReturnDisconnected).  As amended: in every     *)
(* maze the drunkard's walk returns, and at every point of the walk, a     *)
(* flood fill from any floor cell reaches every floor cell, and the goal   *)
(* can be reached from the start.                                          *)
(***************************************************************************)
Connected(floors) == \A c \in floors : Flood(floors, {c}) = floors

\* The states of the walk that some sequence of draws leads to from those of
\* `frontier`, `seen` included.
RECURSIVE DrunkReach(_, _)
DrunkReach(frontier, seen) ==
    LET next == UNION {{DrunkMoved(s.maze, s.gen, i) :
                           i \in 0..(Len(ValidDirs(s.maze, s.gen.x, s.gen.y)) - 1)} :
                       s \in {t \in frontier : DrunkWalking(t.maze, t.gen)}}
        new == next \ seen
    IN  IF new = {} THEN seen ELSE DrunkReach(new, seen \cup new)

\* The mazes the walk can end with on a grid, floor cells collected.
DrunkCanReturn(rows, cols, params) ==
    LET started == {DrunkStarted(Maze_new(rows, cols), params, x, y) :
                       x \in 0..(cols - 1), y \in 0..(rows - 1)}
    IN  {DrunkCollected(s.maze).maze :
            s \in {t \in DrunkReach(started, started) : ~DrunkWalking(t.maze, t.gen)}}

C20_CanReturnDisconnected ==
    (gen.kind = "drunkardswalk" /\ gen.pc = "begin") =>
        \E d \in Dims(DrunkMaxCells, DrunkMaxCells), params \in DrunkParams :
            /\ d[1] * d[2] <= DrunkMaxCells
            /\ \E m \in DrunkCanReturn(d[1], d[2], params) : ~Connected(FloorSet(m))

C20_AlwaysConnected ==
    (gen.kind = "drunkardswalk" /\ gen.pc # "begin") =>
        /\ Connected(FloorSet(maze))
        /\ Returned => BfsDist(maze) >= 0

\* A maze the walk returns with walls, four floor cells or more, and the
\* goal not next to the start.
C20_Witness ==
    /\ gen.kind = "drunkardswalk" /\ Returned
    /\ HasWall(maze)
    /\ Cardinality(FloorSet(maze)) >= 4
    /\ BfsDist(maze) >= 2

(***************************************************************************)
(* C21  Degenerate solver call.  When solve has returned on a maze whose   *)
(* start is its goal, the path is empty and the trace is one close event,  *)
(* of that cell, with g = 0 and h = 0.                                     *)
(***************************************************************************)
C21_StartIsGoal ==
    (sol.pc = "done" /\ maze.start = maze.goal) =>
        /\ sol.path = <<>>
        /\ sol.reasoning = <<[kind |-> "close", x |-> maze.start[1], y |-> maze.start[2],
                              g |-> 0, h |-> 0]>>

\* solve has returned on a maze whose start is its goal, is not the first
\* cell, and has a floor cell next to it.
C21_Witness ==
    /\ sol.pc = "done"
    /\ maze.start = maze.goal
    /\ maze.start # <<0, 0>>
    /\ \E c \in FloorSet(maze) : Adjacent(c, maze.start)

(***************************************************************************)
(* C22  DFS and Wilson carve a spanning tree of the whole lattice.  In     *)
(* every maze the DFS or Wilson generator returns, every cell of the       *)
(* lattice of the chosen offset is floor, every other floor cell is the    *)
(* cell between two lattice cells two apart, there is one such cell less   *)
(* than there are lattice cells, and the floor is connected.  In Wilson's  *)
(* walk no cell is recorded twice and no recorded cell but the last is in  *)
(* in_maze; the last is in in_maze when the walk is carved, and only then. *)
(***************************************************************************)
Connectors(rooms) ==
    {WallBetween(p[1], p[2]) :
        p \in {q \in rooms \X rooms :
                  Abs(q[1][1] - q[2][1]) + Abs(q[1][2] - q[2][2]) = 2}}

C22_Tree ==
    (Returned /\ gen.kind \in {"dfs", "wilson"}) =>
        LET floors == FloorSet(maze)
            rooms == Lattice(maze.rows, maze.cols, gen.offset)
        IN  /\ rooms \subseteq floors
            /\ (floors \ rooms) \subseteq Connectors(rooms)
            /\ Cardinality(floors \ rooms) = Cardinality(rooms) - 1
            /\ Connected(floors)

C22_WilsonWalk ==
    (gen.kind = "wilson" /\ gen.pc \in {"walk", "carve"}) =>
        LET path == gen.path
        IN  /\ \A i, j \in 1..Len(path) : path[i] = path[j] => i = j
            /\ \A i \in 1..(Len(path) - 1) : path[i] \notin gen.in_maze
            /\ (path[Len(path)] \in gen.in_maze) <=> (gen.pc = "carve")

C22_SpanningTree == C22_Tree /\ C22_WilsonWalk

\* A maze of 2 x 2 rooms that Wilson's algorithm returns.
C22_Witness ==
    /\ Returned /\ gen.kind = "wilson"
    /\ Cardinality(Lattice(maze.rows, maze.cols, gen.offset)) = 4
    /\ Cardinality(FloorSet(maze)) = 7

=============================================================================
